---- MODULE Spec2Model ----
(***************************************************************************)
(* GoodMock: the stub-matching engine (matching.go, server.go) and the     *)
(* recording / snapshot pipeline (record package).                         *)
(*                                                                         *)
(* Go strings and byte slices are sequences of one-character strings, so   *)
(* that splitting, parsing, escaping and byte-wise comparison are computed *)
(* and not assumed.  The literals of the model are written with S1..S4,    *)
(* which rebuild such a sequence from its characters.                      *)
(***************************************************************************)
EXTENDS Integers, Sequences, FiniteSets, Bags, TLC

VARIABLES
    mappings,     \* Server.mappings: the Stub Repository, in insertion order
    req,          \* the request of the last match scan
    res1,         \* MatchResult of the scan
    res2,         \* MatchResult of a repeated scan, repository unchanged
    evals,        \* the result of evaluateMapping for each stub, in the scan
    scanned,      \* 0: no scan yet, 1: res1 is set, 2: res1 and res2 are set
    exchanges,    \* RecordServer.exchanges: the Exchange Recorder
    mu,           \* RecordServer.mu: "free" or the handler holding it
    pc,           \* handler -> position in proxyAndRecord / handleSnapshot
    loc,          \* handler -> its local variables
    appended,     \* history: ids of the exchanges appended so far
    exported,     \* history: the exchange lists handed to conversion so far
    cleared,      \* history: ids of the exchanges a clear removed
    nextId,       \* history: id of the next proxied request
    config,       \* RecordServer: jsonContentTypes, preserveKeyOrder, sortArrayMembers
    convIn,       \* the exchanges handed to the conversion
    convOut,      \* the mappings the conversion returned
    converted,    \* whether the conversion has returned
    sortArg,      \* the JSON value a caller passes to SortArrays, as it is in memory
    sortArg0,     \* history: that value as it was before the first call
    sortRet,      \* the values SortArrays returned, one for each call
    jsonEnv,      \* the environment variable JSON_CONTENT_TYPES
    classified,   \* isJSONContentType of the response: "none" before the call
    snapReq,      \* the SnapshotRequest handleSnapshot has read
    snapResp,     \* the body handleSnapshot has answered with
    snapBefore,   \* history: rs.exchanges as handleSnapshot found them
    smu,          \* Server.mu: the handlers holding the read lock, and the writer
    spc,          \* handler -> position in matchRequest or in a mutation
    sloc,         \* handler -> the local variables of its call
    adminLog,     \* history: the admin requests on the stubs, in the order they took effect
    replies       \* history: what proxyAndRecord answered to each proxied request

vars == <<mappings, req, res1, res2, evals, scanned, exchanges, mu, pc, loc,
          appended, exported, cleared, nextId, config, convIn, convOut, converted,
          sortArg, sortArg0, sortRet, jsonEnv, classified,
          snapReq, snapResp, snapBefore, smu, spc, sloc, adminLog, replies>>

matchVars == <<mappings, req, res1, res2, evals, scanned>>
recVars == <<exchanges, mu, pc, loc, appended, exported, cleared, nextId>>
convVars == <<config, convIn, convOut, converted>>
jsonVars == <<sortArg, sortArg0, sortRet, jsonEnv, classified>>
srvVars == <<snapReq, snapResp, snapBefore, smu, spc, sloc, adminLog, replies>>

-----------------------------------------------------------------------------
(* Strings *)

\* the printable ASCII characters, from the space (32) to the tilde (126); the
\* grave accent (96), which no string of the model holds, is spelled out
Ascii ==
    <<" ", "!", "\"", "#", "$", "%", "&", "'", "(", ")", "*", "+", ",", "-",
      ".", "/", "0", "1", "2", "3", "4", "5", "6", "7", "8", "9", ":", ";",
      "<", "=", ">", "?", "@", "A", "B", "C", "D", "E", "F", "G", "H", "I",
      "J", "K", "L", "M", "N", "O", "P", "Q", "R", "S", "T", "U", "V", "W",
      "X", "Y", "Z", "[", "\\", "]", "^", "_", "grave", "a", "b", "c", "d", "e",
      "f", "g", "h", "i", "j", "k", "l", "m", "n", "o", "p", "q", "r", "s",
      "t", "u", "v", "w", "x", "y", "z", "{", "|", "}", "~">>

\* the byte value of a character; Go orders strings byte by byte
Code(c) == 31 + (CHOOSE i \in DOMAIN Ascii : Ascii[i] = c)

Digits == <<"0", "1", "2", "3", "4", "5", "6", "7", "8", "9">>

IsDigit(c) == c \in {Digits[i] : i \in DOMAIN Digits}

DigitVal(c) == Code(c) - 48

\* strings.ToUpper on one character
UpperChar(c) == IF Code(c) \in 97..122 THEN Ascii[Code(c) - 63] ELSE c

\* strings.ToLower on one character
LowerChar(c) == IF Code(c) \in 65..90 THEN Ascii[Code(c) + 1] ELSE c

ToUpper(s) == [i \in 1..Len(s) |-> UpperChar(s[i])]

ToLower(s) == [i \in 1..Len(s) |-> LowerChar(s[i])]

\* strings.EqualFold
EqualFold(s, t) == ToUpper(s) = ToUpper(t)

\* s[from..to], empty when from > to
Slice(s, from, to) == IF from > to THEN <<>> ELSE SubSeq(s, from, to)

\* strings.IndexByte: the first index of c in s, 0 when absent
IndexByte(s, c) ==
    IF \E i \in 1..Len(s) : s[i] = c
    THEN CHOOSE i \in 1..Len(s) : s[i] = c /\ \A j \in 1..(i - 1) : s[j] # c
    ELSE 0

\* whether t occurs in s at position i
OccursAt(s, t, i) ==
    /\ i >= 1
    /\ i + Len(t) - 1 <= Len(s)
    /\ \A j \in 1..Len(t) : s[i + j - 1] = t[j]

\* strings.Contains
Contains(s, t) == \E i \in 1..(Len(s) + 1) : OccursAt(s, t, i)

\* Go's s < t on strings: byte-wise lexicographic order
StrLess(s, t) ==
    \E i \in 1..(Len(t)) :
        /\ \A j \in 1..(i - 1) : j <= Len(s) /\ s[j] = t[j]
        /\ \/ i = Len(s) + 1
           \/ i <= Len(s) /\ Code(s[i]) < Code(t[i])

StrLeq(s, t) == s = t \/ StrLess(s, t)

\* sort.Strings: insertion of x into an ascending sequence
RECURSIVE InsertSorted(_, _)
InsertSorted(x, sorted) ==
    IF sorted = <<>> THEN <<x>>
    ELSE IF StrLeq(x, Head(sorted)) THEN <<x>> \o sorted
    ELSE <<Head(sorted)>> \o InsertSorted(x, Tail(sorted))

RECURSIVE SortStrings(_)
SortStrings(ss) ==
    IF ss = <<>> THEN <<>> ELSE InsertSorted(Head(ss), SortStrings(Tail(ss)))

\* strings.Join
RECURSIVE Join(_, _)
Join(ss, sep) ==
    IF ss = <<>> THEN <<>>
    ELSE IF Len(ss) = 1 THEN ss[1]
    ELSE ss[1] \o sep \o Join(Tail(ss), sep)

\* the characters of a string literal of one to four characters
S1(a) == <<a>>

S2(a, b) == <<a, b>>

S3(a, b, c) == <<a, b, c>>

S4(a, b, c, d) == <<a, b, c, d>>

-----------------------------------------------------------------------------
(* encoding/json, on the JSON texts the model uses: objects, arrays,       *)
(* strings with the escapes \" \\ \/, non-negative integers, true, false,  *)
(* null, and the space as whitespace.  A parsed value is a record tagged   *)
(* by k; an object is a function from its keys (a later duplicate key      *)
(* overwrites an earlier one, as in a Go map).                             *)

JNull == [k |-> "null"]

ParseFail == [ok |-> FALSE, v |-> JNull, n |-> 0]

\* the first index >= i that holds no whitespace (Len(s) + 1 at the end)
SkipWs(s, i) ==
    LET rest == {j \in i..Len(s) : s[j] # " "}
    IN IF rest = {} THEN Len(s) + 1
       ELSE CHOOSE j \in rest : \A x \in rest : j <= x

\* the characters of a string literal whose opening quote is at j - 1
RECURSIVE ScanString(_, _, _)
ScanString(s, j, acc) ==
    IF j > Len(s) THEN ParseFail
    ELSE IF s[j] = "\"" THEN [ok |-> TRUE, v |-> [k |-> "str", s |-> acc], n |-> j + 1]
    ELSE IF s[j] = "\\"
         THEN IF j + 1 <= Len(s) /\ s[j + 1] \in {"\"", "\\", "/"}
              THEN ScanString(s, j + 2, Append(acc, s[j + 1]))
              ELSE ParseFail
    ELSE ScanString(s, j + 1, Append(acc, s[j]))

\* the value of the digits s[i..j]
RECURSIVE DigitsVal(_, _, _)
DigitsVal(s, i, j) ==
    IF i > j THEN 0 ELSE DigitsVal(s, i, j - 1) * 10 + DigitVal(s[j])

\* a number starting at i: 0, or a run of digits with no leading 0
ScanNumber(s, i) ==
    IF s[i] = "0" THEN [ok |-> TRUE, v |-> [k |-> "num", n |-> 0], n |-> i + 1]
    ELSE LET stop == {j \in i..Len(s) : ~IsDigit(s[j])}
             last == IF stop = {} THEN Len(s)
                     ELSE (CHOOSE j \in stop : \A x \in stop : j <= x) - 1
         IN [ok |-> TRUE, v |-> [k |-> "num", n |-> DigitsVal(s, i, last)], n |-> last + 1]

RECURSIVE ParseValue(_, _)
RECURSIVE ParseElems(_, _, _)
RECURSIVE ParseMembers(_, _, _)

\* the value starting at s[i] (no whitespace at i)
ParseValue(s, i) ==
    IF i > Len(s) THEN ParseFail
    ELSE IF s[i] = "\"" THEN ScanString(s, i + 1, <<>>)
    ELSE IF IsDigit(s[i]) THEN ScanNumber(s, i)
    ELSE IF OccursAt(s, <<"t", "r", "u", "e">>, i)
         THEN [ok |-> TRUE, v |-> [k |-> "bool", b |-> TRUE], n |-> i + 4]
    ELSE IF OccursAt(s, <<"f", "a", "l", "s", "e">>, i)
         THEN [ok |-> TRUE, v |-> [k |-> "bool", b |-> FALSE], n |-> i + 5]
    ELSE IF OccursAt(s, <<"n", "u", "l", "l">>, i)
         THEN [ok |-> TRUE, v |-> JNull, n |-> i + 4]
    ELSE IF s[i] = "["
         THEN LET j == SkipWs(s, i + 1)
              IN IF j <= Len(s) /\ s[j] = "]"
                 THEN [ok |-> TRUE, v |-> [k |-> "arr", e |-> <<>>], n |-> j + 1]
                 ELSE ParseElems(s, j, <<>>)
    ELSE IF s[i] = "{"
         THEN LET j == SkipWs(s, i + 1)
              IN IF j <= Len(s) /\ s[j] = "}"
                 THEN [ok |-> TRUE, v |-> [k |-> "obj", m |-> <<>>], n |-> j + 1]
                 ELSE ParseMembers(s, j, <<>>)
    ELSE ParseFail

\* the elements of an array from s[j] on, acc the elements read so far
ParseElems(s, j, acc) ==
    LET pv == ParseValue(s, j)
        c == SkipWs(s, pv.n)
    IN IF ~pv.ok \/ c > Len(s) THEN ParseFail
       ELSE IF s[c] = "," THEN ParseElems(s, SkipWs(s, c + 1), Append(acc, pv.v))
       ELSE IF s[c] = "]"
            THEN [ok |-> TRUE, v |-> [k |-> "arr", e |-> Append(acc, pv.v)], n |-> c + 1]
       ELSE ParseFail

\* the members of an object from s[j] on, acc the members read so far
ParseMembers(s, j, acc) ==
    IF j > Len(s) \/ s[j] # "\"" THEN ParseFail
    ELSE LET ks == ScanString(s, j + 1, <<>>)
             c == SkipWs(s, ks.n)
         IN IF ~ks.ok \/ c > Len(s) \/ s[c] # ":" THEN ParseFail
            ELSE LET pv == ParseValue(s, SkipWs(s, c + 1))
                     d == SkipWs(s, pv.n)
                     key == ks.v.s
                     m == [x \in (DOMAIN acc) \cup {key} |->
                              IF x = key THEN pv.v ELSE acc[x]]
                 IN IF ~pv.ok \/ d > Len(s) THEN ParseFail
                    ELSE IF s[d] = "," THEN ParseMembers(s, SkipWs(s, d + 1), m)
                    ELSE IF s[d] = "}"
                         THEN [ok |-> TRUE, v |-> [k |-> "obj", m |-> m], n |-> d + 1]
                    ELSE ParseFail

\* json.Unmarshal(s, &v) into an interface{}: ok is err == nil
Unmarshal(s) ==
    LET i == SkipWs(s, 1)
        pv == ParseValue(s, i)
    IN IF pv.ok /\ SkipWs(s, pv.n) > Len(s) THEN [ok |-> TRUE, v |-> pv.v]
       ELSE [ok |-> FALSE, v |-> JNull]

\* the decimal digits of n
RECURSIVE IntToStr(_)
IntToStr(n) ==
    IF n < 10 THEN <<Digits[n + 1]>>
    ELSE Append(IntToStr(n \div 10), Digits[(n % 10) + 1])

\* the body of a JSON string literal: " and \ escaped
RECURSIVE Escape(_)
Escape(s) ==
    IF s = <<>> THEN <<>>
    ELSE (IF Head(s) \in {"\"", "\\"} THEN <<"\\", Head(s)>> ELSE <<Head(s)>>)
         \o Escape(Tail(s))

\* json.Marshal of a Go string
Quote(s) == <<"\"">> \o Escape(s) \o <<"\"">>

\* the strings of a finite set, ascending
RECURSIVE SortedSeq(_)
SortedSeq(S) ==
    IF S = {} THEN <<>>
    ELSE LET x == CHOOSE y \in S : \A z \in S : StrLeq(y, z)
         IN <<x>> \o SortedSeq(S \ {x})

\* json.Marshal of a parsed value: no whitespace, object keys ascending
RECURSIVE Marshal(_)
Marshal(v) ==
    CASE v.k = "null" -> <<"n", "u", "l", "l">>
      [] v.k = "bool" -> IF v.b THEN <<"t", "r", "u", "e">>
                         ELSE <<"f", "a", "l", "s", "e">>
      [] v.k = "num" -> IntToStr(v.n)
      [] v.k = "str" -> Quote(v.s)
      [] v.k = "arr" ->
            <<"[">> \o Join([i \in 1..Len(v.e) |-> Marshal(v.e[i])], <<",">>) \o <<"]">>
      [] v.k = "obj" ->
            LET keys == SortedSeq(DOMAIN v.m)
            IN <<"{">>
               \o Join([i \in 1..Len(keys) |->
                           Quote(keys[i]) \o <<":">> \o Marshal(v.m[keys[i]])], <<",">>)
               \o <<"}">>

-----------------------------------------------------------------------------
(* regexp, on the patterns the model uses: literal characters, '.', a      *)
(* postfix '*' on one character, '^' at the start and '$' at the end.      *)
(* Compile rejects the Perl lookahead "(?!" (RE2 has none), an unbalanced  *)
(* parenthesis and a '*' with nothing to repeat; the model uses no pattern *)
(* with a plain group.                                                     *)

\* the number of c in s
CountChar(s, c) == Cardinality({i \in 1..Len(s) : s[i] = c})

\* regexp.Compile(p): err == nil
RegexCompiles(p) ==
    /\ ~Contains(p, <<"(", "?">>)
    /\ CountChar(p, "(") = 0
    /\ CountChar(p, ")") = 0
    /\ ~(Len(p) > 0 /\ p[1] = "*")
    /\ ~Contains(p, <<"*", "*">>)
    /\ ~Contains(p, <<"^", "*">>)

RECURSIVE MatchHere(_, _)
\* whether re matches a prefix of text
MatchHere(re, text) ==
    IF re = <<>> THEN TRUE
    ELSE IF Len(re) >= 2 /\ re[2] = "*"
         THEN \E n \in 0..Len(text) :
                 /\ \A j \in 1..n : re[1] = "." \/ re[1] = text[j]
                 /\ MatchHere(Slice(re, 3, Len(re)), Slice(text, n + 1, Len(text)))
    ELSE IF re = <<"$">> THEN text = <<>>
    ELSE /\ text # <<>>
         /\ (re[1] = "." \/ re[1] = text[1])
         /\ MatchHere(Tail(re), Tail(text))

\* (*Regexp).MatchString: whether text contains a match of re (unanchored)
MatchString(re, text) ==
    IF re # <<>> /\ re[1] = "^" THEN MatchHere(Tail(re), text)
    ELSE \E i \in 1..(Len(text) + 1) : MatchHere(re, Slice(text, i, Len(text)))

-----------------------------------------------------------------------------
(* Request URIs *)

Alphabet == {Ascii[i] : i \in DOMAIN Ascii}

\* the character of a byte value
CharOf(n) == Ascii[n - 31]

IsHex(c) == IsDigit(c) \/ Code(c) \in 65..70 \/ Code(c) \in 97..102

HexVal(c) ==
    IF IsDigit(c) THEN DigitVal(c)
    ELSE IF Code(c) \in 65..70 THEN Code(c) - 55
    ELSE Code(c) - 87

\* strings.Split(s, sep) for a one-character separator
RECURSIVE Split(_, _)
Split(s, sep) ==
    LET i == IndexByte(s, sep)
    IN IF i = 0 THEN <<s>>
       ELSE <<Slice(s, 1, i - 1)>> \o Split(Slice(s, i + 1, Len(s)), sep)

\* the path of a raw URI: the part before the first '?'
PathOf(uri) ==
    LET i == IndexByte(uri, "?")
    IN IF i = 0 THEN uri ELSE Slice(uri, 1, i - 1)

\* the query string of a raw URI: the part after the first '?'
QueryStringOf(uri) ==
    LET i == IndexByte(uri, "?")
    IN IF i = 0 THEN <<>> ELSE Slice(uri, i + 1, Len(uri))

\* fasthttp's decoding of a query argument: %XX and '+', a malformed escape
\* is kept as it is
RECURSIVE DecodeArg(_)
DecodeArg(s) ==
    IF s = <<>> THEN <<>>
    ELSE IF s[1] = "+" THEN <<" ">> \o DecodeArg(Tail(s))
    ELSE IF s[1] = "%"
         THEN IF Len(s) < 3 THEN s
              ELSE IF IsHex(s[2]) /\ IsHex(s[3])
                   THEN <<CharOf(HexVal(s[2]) * 16 + HexVal(s[3]))>>
                        \o DecodeArg(Slice(s, 4, Len(s)))
                   ELSE <<"%">> \o DecodeArg(Tail(s))
    ELSE <<s[1]>> \o DecodeArg(Tail(s))

\* ctx.QueryArgs(): the decoded (key, value) pairs of the query string, in order
QueryArgs(uri) ==
    LET qs == QueryStringOf(uri)
        parts == IF qs = <<>> THEN <<>> ELSE Split(qs, "&")
        kv(part) ==
            LET i == IndexByte(part, "=")
            IN IF i = 0 THEN [key |-> DecodeArg(part), value |-> <<>>]
               ELSE [key |-> DecodeArg(Slice(part, 1, i - 1)),
                     value |-> DecodeArg(Slice(part, i + 1, Len(part)))]
    IN [i \in 1..Len(parts) |-> kv(parts[i])]

\* RequestHeader.Peek: the value of a header, empty when the header is absent
Peek(headers, name) == IF name \in DOMAIN headers THEN headers[name] ELSE <<>>

-----------------------------------------------------------------------------
(* matching.go *)

\* the sub-sequence of s whose elements are in keep
RECURSIVE SelectNames(_, _)
SelectNames(s, keep) ==
    IF s = <<>> THEN <<>>
    ELSE (IF Head(s) \in keep THEN <<Head(s)>> ELSE <<>>) \o SelectNames(Tail(s), keep)

\* getExpectedValues
getExpectedValues(matcher) ==
    IF matcher.EqualTo # <<>> THEN <<matcher.EqualTo>> ELSE matcher.HasExactly

\* matchQueryParam: equal length, and equal element-wise once both are sorted
MutMatchQueryParamUnsorted(expected, actual) ==
    /\ Len(expected) = Len(actual)
    /\ \A i \in 1..Len(expected) : expected[i] = actual[i]

matchQueryParam(expected, actual) ==
    /\ Len(expected) = Len(actual)
    /\ LET sortedExpected == SortStrings(expected)
           sortedActual == SortStrings(actual)
       IN \A i \in 1..Len(sortedExpected) : sortedExpected[i] = sortedActual[i]

\* matchHeader
matchHeader(matcher, actual) ==
    IF matcher.EqualTo # <<>> THEN matcher.EqualTo = actual
    ELSE IF matcher.Contains # <<>> THEN Contains(actual, matcher.Contains)
    ELSE TRUE

\* jsonEqual, second half: an expected value that is a string is parsed again
expectedValOf(e1) == IF e1.ok /\ e1.v.k = "str" THEN Unmarshal(e1.v.s) ELSE e1

\* jsonEqual, last part: both parsed, and equal once marshalled
MutNormEqualIgnoresErr(e, a) ==
    Marshal(IF e.ok THEN e.v ELSE JNull) = Marshal(IF a.ok THEN a.v ELSE JNull)

normEqual(e, a) == e.ok /\ a.ok /\ Marshal(e.v) = Marshal(a.v)

\* jsonEqual
jsonEqual(expected, actual) ==
    normEqual(expectedValOf(Unmarshal(expected)), Unmarshal(actual))

\* matchBodyPatterns
matchBodyPatterns(patterns, body) ==
    \A i \in 1..Len(patterns) :
        patterns[i].has => jsonEqual(patterns[i].EqualToJSON, body)

\* the values the request carries for a query parameter, in request order
actualValues(queryArgs, paramName) ==
    LET idx == SelectNames([i \in 1..Len(queryArgs) |-> i],
                           {i \in 1..Len(queryArgs) : queryArgs[i].key = paramName})
    IN [i \in 1..Len(idx) |-> queryArgs[idx[i]].value]

\* one pass of the loop over the query matchers: the diff record it appends
queryDiff(paramName, expectedValues, actual) ==
    IF matchQueryParam(expectedValues, actual) THEN <<>>
    ELSE IF Len(actual) = 0
         THEN <<[kind |-> "not_present", name |-> paramName,
                 expected |-> expectedValues, actual |-> <<>>]>>
         ELSE <<[kind |-> "mismatch", name |-> paramName,
                 expected |-> expectedValues, actual |-> actual]>>

\* the diff records of the query matchers, visited in the order names
RECURSIVE queryDiffs(_, _, _)
queryDiffs(qp, names, queryArgs) ==
    IF names = <<>> THEN <<>>
    ELSE queryDiff(Head(names), getExpectedValues(qp[Head(names)]),
                   actualValues(queryArgs, Head(names)))
         \o queryDiffs(qp, Tail(names), queryArgs)

\* one pass of the loop over the header matchers: the diff record it appends
headerDiff(headerName, matcher, actualValue) ==
    IF matchHeader(matcher, actualValue) THEN <<>>
    ELSE IF actualValue = <<>>
         THEN <<[kind |-> "not_present", name |-> headerName,
                 expected |-> matcher.EqualTo, actual |-> <<>>]>>
         ELSE <<[kind |-> "mismatch", name |-> headerName,
                 expected |-> matcher.EqualTo, actual |-> actualValue]>>

\* the diff records of the header matchers, visited in the order names
RECURSIVE headerDiffs(_, _, _)
headerDiffs(hs, names, reqHeaders) ==
    IF names = <<>> THEN <<>>
    ELSE headerDiff(Head(names), hs[Head(names)], Peek(reqHeaders, Head(names)))
         \o headerDiffs(hs, Tail(names), reqHeaders)

\* the URL criterion with every populated field consulted
MutUrlMatchAnyMode(r, path, fullURI) ==
    \/ r.URL # <<>> /\ r.URL = fullURI
    \/ r.URLPath # <<>> /\ r.URLPath = path
    \/ r.URLPattern # <<>> /\ RegexCompiles(r.URLPattern) /\ MatchString(r.URLPattern, fullURI)

\* the URL criterion: url, else urlPath, else urlPattern
urlMatch(r, path, fullURI) ==
    IF r.URL # <<>> THEN r.URL = fullURI
    ELSE IF r.URLPath # <<>> THEN r.URLPath = path
    ELSE IF r.URLPattern # <<>>
         THEN RegexCompiles(r.URLPattern) /\ MatchString(r.URLPattern, fullURI)
    ELSE FALSE

\* the method criterion
methodMatch(r, method) ==
    EqualFold(r.Method, method) \/ EqualFold(r.Method, <<"A", "N", "Y">>)

\* the zero MatchResult
NoResult ==
    [Matched |-> FALSE, Mapping |-> 0, URLMatch |-> FALSE, MethodMatch |-> FALSE,
     QueryMatch |-> FALSE, BodyMatch |-> FALSE, HeaderMatch |-> FALSE,
     QueryDiffs |-> <<>>, BodyDiff |-> "", HeaderDiffs |-> <<>>]

\* the body criterion
bodyMatch(patterns, body) ==
    IF Len(patterns) = 0 THEN TRUE ELSE matchBodyPatterns(patterns, body)

\* the MatchResult of evaluateMapping from its five checks: QueryMatch and
\* HeaderMatch are cleared exactly when a diff record is appended
resultOf(mm, um, qd, bm, hd) ==
    [Matched |-> mm /\ um /\ qd = <<>> /\ bm /\ hd = <<>>,
     Mapping |-> 0,
     URLMatch |-> um, MethodMatch |-> mm, QueryMatch |-> qd = <<>>, BodyMatch |-> bm,
     HeaderMatch |-> hd = <<>>,
     QueryDiffs |-> qd,
     BodyDiff |-> IF bm THEN "" ELSE "Body does not match",
     HeaderDiffs |-> hd]

\* evaluateMapping; qOrd and hOrd are the orders in which the two range
\* loops over the maps visit the matcher names
evaluateMapping(m, method, path, fullURI, queryArgs, body, reqHeaders, qOrd, hOrd) ==
    resultOf(methodMatch(m.Request, method),
             urlMatch(m.Request, path, fullURI),
             queryDiffs(m.Request.QueryParameters,
                        SelectNames(qOrd, DOMAIN m.Request.QueryParameters), queryArgs),
             bodyMatch(m.Request.BodyPatterns, body),
             headerDiffs(m.Request.Headers,
                         SelectNames(hOrd, DOMAIN m.Request.Headers), reqHeaders))

\* the results of evaluateMapping for the stubs of the repository, as the
\* loop of matchRequest computes them for the request rq
evaluateAll(maps, rq, qOrd, hOrd) ==
    [i \in 1..Len(maps) |->
        evaluateMapping(maps[i], rq.method, PathOf(rq.uri), rq.uri, QueryArgs(rq.uri),
                        rq.body, rq.headers, qOrd, hOrd)]

\* the bonus of a stub with an exact url
ExactURLBonus == 100

\* the specificity of a fully matching stub
specificity(m) ==
    Cardinality(DOMAIN m.Request.QueryParameters) + Len(m.Request.BodyPatterns)
    + Cardinality(DOMAIN m.Request.Headers)
    + (IF m.Request.URL # <<>> THEN ExactURLBonus ELSE 0)

\* the score of a stub that does not fully match
diagnosticScore(result) ==
    (IF result.MethodMatch THEN 1 ELSE 0) + (IF result.URLMatch THEN 2 ELSE 0)
    + (IF result.QueryMatch THEN 4 ELSE 0) + (IF result.BodyMatch THEN 8 ELSE 0)
    + (IF result.HeaderMatch THEN 16 ELSE 0)

\* whether a fully matching stub replaces the best result so far
MutTakesMatchNoFirst(bestMatched, bestScore, score) == score > bestScore

MutTakesMatchLast(bestMatched, bestScore, score) == ~bestMatched \/ score >= bestScore

takesMatch(bestMatched, bestScore, score) == ~bestMatched \/ score > bestScore

\* whether a stub that does not match replaces the best result so far
takesNearMiss(bestMatched, bestScore, score) == ~bestMatched /\ score > bestScore

\* one pass of the loop of matchRequest, on stub i: result is what
\* evaluateMapping returned for it, score its specificity or diagnostic score
scanStep(st, i, result, score) ==
    IF result.Matched
    THEN IF takesMatch(st.bestMatched, st.bestScore, score)
         THEN [bestMatched |-> TRUE, bestScore |-> score,
               bestMatch |-> [result EXCEPT !.Mapping = i]]
         ELSE st
    ELSE IF takesNearMiss(st.bestMatched, st.bestScore, score)
         THEN [bestMatched |-> st.bestMatched, bestScore |-> score,
               bestMatch |-> [result EXCEPT !.Mapping = i]]
         ELSE st

\* the score matchRequest computes for stub m with its result
scoreOf(m, result) ==
    IF result.Matched THEN specificity(m) ELSE diagnosticScore(result)

\* the loop of matchRequest from stub i on; results[i] is what evaluateMapping
\* returns for stub i
RECURSIVE scanFrom(_, _, _, _)
scanFrom(st, i, maps, results) ==
    IF i > Len(maps) THEN st
    ELSE scanFrom(scanStep(st, i, results[i], scoreOf(maps[i], results[i])),
                  i + 1, maps, results)

\* matchRequest, given the results of its calls of evaluateMapping; the
\* Mapping of the result is the index of the stub, 0 for nil
matchRequest(maps, results) ==
    scanFrom([bestMatched |-> FALSE, bestScore |-> 0, bestMatch |-> NoResult],
             1, maps, results).bestMatch

\* handleRequest's call of matchRequest for the request rq
matchOf(maps, rq, qOrd, hOrd) == matchRequest(maps, evaluateAll(maps, rq, qOrd, hOrd))

-----------------------------------------------------------------------------
(* The stubs and requests of the model *)

GET == <<"G", "E", "T">>

POST == <<"P", "O", "S", "T">>

NoMatcher == [EqualTo |-> <<>>, HasExactly |-> <<>>]

\* a query matcher {"equalTo": v}
QEqualTo(v) == [EqualTo |-> v, HasExactly |-> <<>>]

\* a query matcher {"hasExactly": [{"equalTo": v1}, ...]}
QHasExactly(vs) == [EqualTo |-> <<>>, HasExactly |-> vs]

\* a header matcher {"equalTo": v}
HEqualTo(v) == [EqualTo |-> v, Contains |-> <<>>]

\* a header matcher {"contains": v}
HContains(v) == [EqualTo |-> <<>>, Contains |-> v]

\* a body pattern {"equalToJson": raw}
BEqualToJson(raw) ==
    [has |-> TRUE, EqualToJSON |-> raw, IgnoreArrayOrder |-> "nil",
     IgnoreExtraElements |-> "nil"]

\* a body pattern without equalToJson (EqualToJSON == nil)
BNoJson ==
    [has |-> FALSE, EqualToJSON |-> <<>>, IgnoreArrayOrder |-> "nil",
     IgnoreExtraElements |-> "nil"]

\* the zero Response
NoResponse ==
    [Status |-> 0, Body |-> <<>>, hasJsonBody |-> FALSE, JsonBody |-> <<>>, Headers |-> <<>>]

\* a Mapping with the given request criteria
Stub(name, method, url, urlPath, urlPattern, qp, bps, hs) ==
    [Name |-> name, ScenarioName |-> <<>>, RequiredScenarioState |-> <<>>,
     NewScenarioState |-> <<>>,
     Request |-> [URL |-> url, URLPath |-> urlPath, URLPattern |-> urlPattern,
                  Method |-> method, QueryParameters |-> qp, BodyPatterns |-> bps,
                  Headers |-> hs],
     Response |-> [NoResponse EXCEPT !.Status = 200]]

\* /a
UriA == <<"/", "a">>

\* /b
UriB == <<"/", "b">>

\* /a?x=1&x=2
UriAx12 == <<"/", "a", "?", "x", "=", "1", "&", "x", "=", "2">>

\* /a?x=2&x=1
UriAx21 == <<"/", "a", "?", "x", "=", "2", "&", "x", "=", "1">>

\* /a?x=1&y=2
UriAx1y2 == <<"/", "a", "?", "x", "=", "1", "&", "y", "=", "2">>

\* /b?y=1
UriBy1 == <<"/", "b", "?", "y", "=", "1">>

\* {"a":1,"b":2}
JsonAB == <<"{", "\"", "a", "\"", ":", "1", ",", "\"", "b", "\"", ":", "2", "}">>

\* { "b":2, "a":1 }
JsonBAws == <<"{", " ", "\"", "b", "\"", ":", "2", ",", " ", "\"", "a", "\"", ":",
              "1", " ", "}">>

\* [1,2]
Json12 == <<"[", "1", ",", "2", "]">>

\* [2,1]
Json21 == <<"[", "2", ",", "1", "]">>

\* {"a":1   (cut short)
JsonCut == <<"{", "\"", "a", "\"", ":", "1">>

\* the names of the query parameters and of the headers of the model
QNames == {S1("x"), S1("y")}

HNames == {S1("X"), S1("Y")}

\* url /a, GET, no further criterion
StubExact == Stub(S1("a"), GET, UriA, <<>>, <<>>, <<>>, <<>>, <<>>)

\* urlPath /a, ANY, x hasExactly [1, 2]
StubPathQ ==
    Stub(S1("a"), <<"A", "N", "Y">>, <<>>, UriA, <<>>,
         (S1("x") :> QHasExactly(<<S1("1"), S1("2")>>)), <<>>, <<>>)

\* urlPath /a, get, x equalTo 1 and y equalTo 2, header X contains "a"
StubPathQQH ==
    Stub(S1("a"), <<"g", "e", "t">>, <<>>, UriA, <<>>,
         (S1("x") :> QEqualTo(S1("1"))) @@ (S1("y") :> QEqualTo(S1("2"))),
         <<>>, (S1("X") :> HContains(S1("a"))))

\* urlPattern /a.*, GET, body equalToJson "{\"a\":1,\"b\":2}" (double-encoded)
StubPatternB ==
    Stub(S1("a"), GET, <<>>, <<>>, <<"/", "a", ".", "*">>, <<>>,
         <<BEqualToJson(Quote(JsonAB))>>, <<>>)

\* url /b?y=1, POST, y equalTo 1, body equalToJson [1,2], headers X and Y equalTo 1
StubAll ==
    Stub(S1("b"), POST, UriBy1, <<>>, <<>>,
         (S1("y") :> QEqualTo(S1("1"))), <<BEqualToJson(Json12)>>,
         (S1("X") :> HEqualTo(S1("1"))) @@ (S1("Y") :> HEqualTo(S1("1"))))

\* urlPattern "(" (does not compile), GET
StubBadPattern == Stub(S1("a"), GET, <<>>, <<>>, S1("("), <<>>, <<>>, <<>>)

\* urlPath /a, ANY, and one body pattern more than the bonus of an exact url
StubWide ==
    Stub(S1("a"), <<"A", "N", "Y">>, <<>>, UriA, <<>>, <<>>,
         [i \in 1..(ExactURLBonus + 1) |-> BEqualToJson(Json12)], <<>>)

\* the stubs of the specification with StubWide
WidePool == {StubExact, StubWide, StubBadPattern}

StubPool == {StubExact, StubPathQ, StubPathQQH, StubPatternB, StubAll, StubBadPattern}

\* the bodies of the import requests
ImportPool == {<<StubPathQ, StubExact>>, <<StubAll, StubPatternB>>}

Request(method, uri, body, headers) ==
    [method |-> method, uri |-> uri, body |-> body, headers |-> headers]

NoRequest == Request(<<>>, <<>>, <<>>, <<>>)

RequestPool ==
    {Request(GET, UriA, <<>>, <<>>),
     Request(GET, UriAx21, JsonBAws, <<>>),
     Request(GET, UriAx1y2, JsonAB, (S1("X") :> S2("b", "a"))),
     Request(GET, UriA, Json21, (S1("X") :> S1("b"))),
     Request(POST, UriBy1, Json12, (S1("X") :> S1("1")) @@ (S1("Y") :> S1("1"))),
     Request(POST, UriBy1, JsonCut, (S1("Y") :> S1("2")))}

\* the requests of the specification with StubWide
WideRequests ==
    {Request(GET, UriA, Json12, <<>>), Request(GET, UriA, Json21, <<>>),
     Request(POST, UriA, Json12, <<>>)}

\* the orders in which a range loop may visit the elements of S
Perms(S) ==
    {p \in [1..Cardinality(S) -> S] : \A i, j \in 1..Cardinality(S) : p[i] = p[j] => i = j}

-----------------------------------------------------------------------------
(* The Exchange Recorder: record package *)

\* a RecordedExchange; id is history, it tells the appends apart
Exchange(method, url, reqBody, status, respHeaders, respBody) ==
    [Method |-> method, URL |-> url, ReqBody |-> reqBody, Status |-> status,
     RespHeaders |-> respHeaders, RespBody |-> respBody, id |-> 0]

NoExchange == Exchange(<<>>, <<>>, <<>>, 0, <<>>, <<>>)

\* the local variables of a handler: the exchange of proxyAndRecord, and the
\* URLPattern, filtered and remaining of handleSnapshot
NoLocals ==
    [exchange |-> NoExchange, URLPattern |-> <<>>, filtered |-> <<>>, remaining |-> <<>>]

\* negativeLookaheadRe.FindStringSubmatch(pattern)[1] for the pattern
\* ^\(?(?:\(\?\!(.+?)\)\.)\)\*$, empty when the pattern has not that shape
negativeLookaheadInner(pattern) ==
    LET q == IF Len(pattern) >= 4 /\ Slice(pattern, 1, 4) = <<"(", "(", "?", "!">>
             THEN Tail(pattern) ELSE pattern
    IN IF /\ Len(q) >= 8
          /\ Slice(q, 1, 3) = <<"(", "?", "!">>
          /\ Slice(q, Len(q) - 3, Len(q)) = <<")", ".", ")", "*">>
       THEN Slice(q, 4, Len(q) - 4)
       ELSE <<>>

\* compileURLMatcher without the branch of the negative lookahead
MutCompileURLMatcherNoLookahead(pattern, url) ==
    IF RegexCompiles(pattern) THEN MatchString(pattern, url) ELSE TRUE

\* compileURLMatcher(pattern)(url)
compileURLMatcher(pattern, url) ==
    IF RegexCompiles(pattern) THEN MatchString(pattern, url)
    ELSE IF /\ negativeLookaheadInner(pattern) # <<>>
            /\ RegexCompiles(negativeLookaheadInner(pattern))
         THEN ~MatchString(negativeLookaheadInner(pattern), url)
    ELSE TRUE

\* handleSnapshot: whether the drain takes the exchange ex
takes(URLPattern, ex) == URLPattern = <<>> \/ compileURLMatcher(URLPattern, ex.URL)

\* handleSnapshot: the filtered exchanges of the drain
RECURSIVE filteredOf(_, _)
filteredOf(URLPattern, exs) ==
    IF exs = <<>> THEN <<>>
    ELSE (IF takes(URLPattern, Head(exs)) THEN <<Head(exs)>> ELSE <<>>)
         \o filteredOf(URLPattern, Tail(exs))

\* handleSnapshot: the remaining exchanges of the drain
MutRemainingKeepsAll(URLPattern, exs) ==
    IF URLPattern = <<>> THEN <<>> ELSE exs

RECURSIVE remainingOf(_, _)
remainingOf(URLPattern, exs) ==
    IF exs = <<>> THEN <<>>
    ELSE (IF takes(URLPattern, Head(exs)) THEN <<>> ELSE <<Head(exs)>>)
         \o remainingOf(URLPattern, Tail(exs))

\* sync.Mutex.Lock returns once no handler holds the mutex
MutCanLockAlways(m) == TRUE

CanLock(m) == m = "free"

-----------------------------------------------------------------------------
(* The Snapshot Converter: record package *)

\* strings.TrimPrefix
TrimPrefix(s, prefix) ==
    IF OccursAt(s, prefix, 1) THEN Slice(s, Len(prefix) + 1, Len(s)) ELSE s

\* strings.ReplaceAll for a non-empty old
RECURSIVE ReplaceAll(_, _, _)
ReplaceAll(s, old, new) ==
    IF s = <<>> THEN <<>>
    ELSE IF OccursAt(s, old, 1)
         THEN new \o ReplaceAll(Slice(s, Len(old) + 1, Len(s)), old, new)
         ELSE <<Head(s)>> \o ReplaceAll(Tail(s), old, new)

\* strings.TrimSpace
RECURSIVE TrimSpace(_)
TrimSpace(s) ==
    IF s = <<>> THEN <<>>
    ELSE IF Head(s) = " " THEN TrimSpace(Tail(s))
    ELSE IF s[Len(s)] = " " THEN TrimSpace(Slice(s, 1, Len(s) - 1))
    ELSE s

\* generateMappingName
generateMappingName(rawURL) ==
    ToLower(ReplaceAll(ReplaceAll(ReplaceAll(TrimPrefix(PathOf(rawURL), <<"/">>),
                                             <<"/">>, <<"_">>),
                                  <<"%", "3", "A">>, <<>>),
                       <<"%", "3", "a">>, <<>>))

\* url.QueryUnescape(s): err == nil, every '%' starts an escape %XX
ValidEscapes(s) ==
    \A i \in 1..Len(s) :
        s[i] = "%" => i + 2 <= Len(s) /\ IsHex(s[i + 1]) /\ IsHex(s[i + 2])

\* urlDecode: the decoded string, or the original when an escape is malformed
urlDecode(s) == IF ValidEscapes(s) THEN DecodeArg(s) ELSE s

\* parseQueryParams: the key of a part, strings.SplitN(part, "=", 2)[0] decoded
queryKey(part) ==
    urlDecode(IF IndexByte(part, "=") = 0 THEN part
              ELSE Slice(part, 1, IndexByte(part, "=") - 1))

\* parseQueryParams: the value of a part, empty without '='
queryVal(part) ==
    IF IndexByte(part, "=") = 0 THEN <<>>
    ELSE urlDecode(Slice(part, IndexByte(part, "=") + 1, Len(part)))

\* parseQueryParams: params[key], the values of the parts with that key
RECURSIVE paramValues(_, _)
paramValues(parts, key) ==
    IF parts = <<>> THEN <<>>
    ELSE (IF queryKey(Head(parts)) = key THEN <<queryVal(Head(parts))>> ELSE <<>>)
         \o paramValues(Tail(parts), key)

\* parseQueryParams, given the parts of the query string
parseQueryParts(parts) ==
    [key \in {queryKey(parts[i]) : i \in DOMAIN parts} |->
        QHasExactly(paramValues(parts, key))]

\* parseQueryParams
parseQueryParams(qs) == parseQueryParts(Split(qs, "&"))

\* json.Compact on valid JSON: the text without the whitespace outside strings
RECURSIVE CompactText(_, _)
CompactText(s, inString) ==
    IF s = <<>> THEN <<>>
    ELSE IF inString
         THEN IF Head(s) = "\\" /\ Len(s) >= 2
              THEN <<s[1], s[2]>> \o CompactText(Slice(s, 3, Len(s)), TRUE)
              ELSE <<Head(s)>> \o CompactText(Tail(s), Head(s) # "\"")
    ELSE IF Head(s) = " " THEN CompactText(Tail(s), FALSE)
    ELSE <<Head(s)>> \o CompactText(Tail(s), Head(s) = "\"")

\* compactJSON: ok is err == nil
compactJSON(data) ==
    IF Unmarshal(data).ok THEN [ok |-> TRUE, b |-> CompactText(data, FALSE)]
    ELSE [ok |-> FALSE, b |-> <<>>]

MutInsertByJSONFront(x, sorted) == <<x>> \o sorted

\* sort.SliceStable of SortArrays: x put behind the elements that are not
\* greater by their JSON text
RECURSIVE insertByJSON(_, _)
insertByJSON(x, sorted) ==
    IF sorted = <<>> THEN <<x>>
    ELSE IF StrLess(Marshal(x), Marshal(Head(sorted))) THEN <<x>> \o sorted
    ELSE <<Head(sorted)>> \o insertByJSON(x, Tail(sorted))

RECURSIVE sortByJSON(_, _)
sortByJSON(sorted, rest) ==
    IF rest = <<>> THEN sorted
    ELSE sortByJSON(insertByJSON(Head(rest), sorted), Tail(rest))

MutSortArraysShallow(v) ==
    IF v.k = "arr" THEN [v EXCEPT !.e = sortByJSON(<<>>, v.e)] ELSE v

\* jsonutil.SortArrays
RECURSIVE SortArrays(_)
SortArrays(v) ==
    CASE v.k = "obj" -> [v EXCEPT !.m = [key \in DOMAIN v.m |-> SortArrays(v.m[key])]]
      [] v.k = "arr" ->
            [v EXCEPT !.e = sortByJSON(<<>>, [i \in DOMAIN v.e |-> SortArrays(v.e[i])])]
      [] OTHER -> v

MutSortedInPlacePure(v) == v

\* SortArrays assigns into the map and the slice it is passed and returns
\* that same map or slice: the value in the caller's memory after the call
sortedInPlace(v) == SortArrays(v)

\* exchangeToMapping: the bytes of a parsed request body, marshalled again
marshalParsed(u, sortArrayMembers) ==
    IF u.ok
    THEN [ok |-> TRUE, b |-> Marshal(IF sortArrayMembers THEN SortArrays(u.v) ELSE u.v)]
    ELSE [ok |-> FALSE, b |-> <<>>]

\* exchangeToMapping: bodyBytes, ok when they are not nil
bodyBytesOf(ReqBody, preserveKeyOrder, sortArrayMembers) ==
    IF preserveKeyOrder /\ ~sortArrayMembers THEN compactJSON(ReqBody)
    ELSE marshalParsed(Unmarshal(ReqBody), sortArrayMembers)

\* exchangeToMapping: the body patterns from bodyBytes
patternsOf(bodyBytes) ==
    IF bodyBytes.ok
    THEN <<[has |-> TRUE, EqualToJSON |-> Quote(bodyBytes.b),
            IgnoreArrayOrder |-> "false", IgnoreExtraElements |-> "false"]>>
    ELSE <<>>

\* exchangeToMapping: req.BodyPatterns
bodyPatternsOf(ReqBody, preserveKeyOrder, sortArrayMembers) ==
    IF Len(ReqBody) > 0
    THEN patternsOf(bodyBytesOf(ReqBody, preserveKeyOrder, sortArrayMembers))
    ELSE <<>>

\* exchangeToMapping: the types.Request
requestOf(Method, URL, BodyPatterns) ==
    IF QueryStringOf(URL) # <<>>
    THEN [URL |-> <<>>, URLPath |-> PathOf(URL), URLPattern |-> <<>>,
          Method |-> Method, QueryParameters |-> parseQueryParams(QueryStringOf(URL)),
          BodyPatterns |-> BodyPatterns, Headers |-> <<>>]
    ELSE [URL |-> PathOf(URL), URLPath |-> <<>>, URLPattern |-> <<>>,
          Method |-> Method, QueryParameters |-> <<>>,
          BodyPatterns |-> BodyPatterns, Headers |-> <<>>]

\* exchangeToMapping: the response headers that are left out
droppedHeader(upperKey) ==
    \/ OccursAt(upperKey, <<"X", "-", "G", "D", "C">>, 1)
    \/ upperKey \in {<<"D", "A", "T", "E">>,
                     <<"C", "O", "N", "T", "E", "N", "T", "-", "E", "N", "C", "O", "D", "I", "N", "G">>,
                     <<"C", "O", "N", "T", "E", "N", "T", "-", "L", "E", "N", "G", "T", "H">>,
                     <<"C", "O", "N", "N", "E", "C", "T", "I", "O", "N">>,
                     <<"T", "R", "A", "N", "S", "F", "E", "R", "-", "E", "N", "C", "O", "D", "I", "N", "G">>}

\* normalizeHeaderName: the abbreviations kept in upper case
UpperParts ==
    {<<"X", "S", "S">>, <<"H", "T", "T", "P">>, <<"I", "D">>, <<"D", "N", "S">>,
     <<"C", "S", "P">>, <<"U", "R", "I">>, <<"U", "R", "L">>, <<"S", "S", "L">>,
     <<"T", "L", "S">>, <<"I", "P">>}

\* normalizeHeaderName: one part of the name
normalizePart(part) ==
    IF part = <<>> THEN part
    ELSE IF ToUpper(part) \in UpperParts THEN ToUpper(part)
    ELSE <<UpperChar(Head(part))>> \o ToLower(Tail(part))

\* normalizeHeaderName
normalizePartsOf(parts) == [i \in DOMAIN parts |-> normalizePart(parts[i])]

normalizeHeaderName(name) == Join(normalizePartsOf(Split(name, "-")), <<"-">>)

\* exchangeToMapping: the loop over ex.RespHeaders, which visits the keys in
\* the order keys; a key written twice keeps the later value
RECURSIVE headersFrom(_, _, _)
headersFrom(RespHeaders, keys, headers) ==
    IF keys = <<>> THEN headers
    ELSE headersFrom(RespHeaders, Tail(keys),
                     IF droppedHeader(ToUpper(Head(keys))) THEN headers
                     ELSE (normalizeHeaderName(Head(keys)) :> RespHeaders[Head(keys)])
                          @@ headers)

\* isJSONContentType: the media type of a Content-Type value
mediaTypeOf(v) ==
    TrimSpace(IF IndexByte(v, ";") = 0 THEN v ELSE Slice(v, 1, IndexByte(v, ";") - 1))

\* isJSONContentType
isJSONContentType(headers, jsonTypes) ==
    \E key \in DOMAIN headers :
        /\ EqualFold(key, <<"C", "o", "n", "t", "e", "n", "t", "-", "T", "y", "p", "e">>)
        /\ \E i \in DOMAIN headers[key], j \in DOMAIN jsonTypes :
              EqualFold(mediaTypeOf(headers[key][i]), jsonTypes[j])

\* exchangeToMapping: the response of a body that is not stored as JSON
textResponse(Status, headers, RespBody) ==
    [Status |-> Status, Body |-> RespBody, hasJsonBody |-> FALSE, JsonBody |-> <<>>,
     Headers |-> headers]

\* exchangeToMapping: the response with JsonBody the raw message
rawResponse(Status, headers, RespBody) ==
    IF Unmarshal(RespBody).ok
    THEN [Status |-> Status, Body |-> <<>>, hasJsonBody |-> TRUE, JsonBody |-> RespBody,
          Headers |-> headers]
    ELSE textResponse(Status, headers, RespBody)

\* exchangeToMapping: the response with JsonBody the parsed value u, held as
\* its JSON text; a parsed null is a nil JsonBody
parsedResponse(Status, headers, RespBody, u, sortArrayMembers) ==
    IF u.ok
    THEN [Status |-> Status, Body |-> <<>>, hasJsonBody |-> u.v.k # "null",
          JsonBody |-> IF u.v.k = "null" THEN <<>>
                       ELSE Marshal(IF sortArrayMembers THEN SortArrays(u.v) ELSE u.v),
          Headers |-> headers]
    ELSE textResponse(Status, headers, RespBody)

\* exchangeToMapping: the types.Response
responseOf(Status, headers, RespBody, isJSON, preserveKeyOrder, sortArrayMembers) ==
    IF ~isJSON THEN textResponse(Status, headers, RespBody)
    ELSE IF preserveKeyOrder /\ ~sortArrayMembers
         THEN rawResponse(Status, headers, RespBody)
         ELSE parsedResponse(Status, headers, RespBody, Unmarshal(RespBody),
                             sortArrayMembers)

\* exchangeToMapping; keys is the order in which the loop over ex.RespHeaders
\* visits its keys
exchangeToMapping(ex, jsonContentTypes, preserveKeyOrder, sortArrayMembers, keys) ==
    [Name |-> generateMappingName(ex.URL),
     ScenarioName |-> <<>>, RequiredScenarioState |-> <<>>, NewScenarioState |-> <<>>,
     Request |-> requestOf(ex.Method, ex.URL,
                           bodyPatternsOf(ex.ReqBody, preserveKeyOrder, sortArrayMembers)),
     Response |-> responseOf(ex.Status,
                             headersFrom(ex.RespHeaders,
                                         SelectNames(keys, DOMAIN ex.RespHeaders), <<>>),
                             ex.RespBody,
                             isJSONContentType(ex.RespHeaders, jsonContentTypes),
                             preserveKeyOrder, sortArrayMembers)]

\* json.Marshal of a types.EqualMatcher
marshalEqualMatcher(v) == <<"{", "\"", "e", "q", "u", "a", "l", "T", "o", "\"", ":">> \o Quote(v) \o <<"}">>

\* json.Marshal of a types.QueryParamMatcher: empty fields are omitted
marshalMatcher(matcher) ==
    <<"{">>
    \o Join((IF matcher.EqualTo # <<>>
             THEN <<<<"\"", "e", "q", "u", "a", "l", "T", "o", "\"", ":">> \o Quote(matcher.EqualTo)>>
             ELSE <<>>)
            \o (IF matcher.HasExactly # <<>>
                THEN <<<<"\"", "h", "a", "s", "E", "x", "a", "c", "t", "l", "y", "\"", ":", "[">>
                       \o Join([i \in DOMAIN matcher.HasExactly |->
                                   marshalEqualMatcher(matcher.HasExactly[i])], <<",">>)
                       \o <<"]">>>>
                ELSE <<>>),
            <<",">>)
    \o <<"}">>

\* json.Marshal of m.Request.QueryParameters, the keys in ascending order keys
marshalQueryParameters(qp, keys) ==
    <<"{">>
    \o Join([i \in DOMAIN keys |-> Quote(keys[i]) \o <<":">> \o marshalMatcher(qp[keys[i]])],
            <<",">>)
    \o <<"}">>

\* json.Marshal of a *bool field, omitted when nil
boolField(name, b) ==
    IF b = "nil" THEN <<>>
    ELSE <<name \o (IF b = "true" THEN <<"t", "r", "u", "e">> ELSE <<"f", "a", "l", "s", "e">>)>>

\* json.Marshal of a types.BodyPattern
marshalBodyPattern(p) ==
    <<"{">>
    \o Join((IF p.has /\ p.EqualToJSON # <<>>
             THEN <<<<"\"", "e", "q", "u", "a", "l", "T", "o", "J", "s", "o", "n", "\"", ":">> \o CompactText(p.EqualToJSON, FALSE)>>
             ELSE <<>>)
            \o boolField(<<"\"", "i", "g", "n", "o", "r", "e", "A", "r", "r", "a", "y", "O", "r", "d", "e", "r", "\"", ":">>, p.IgnoreArrayOrder)
            \o boolField(<<"\"", "i", "g", "n", "o", "r", "e", "E", "x", "t", "r", "a", "E", "l", "e", "m", "e", "n", "t", "s", "\"", ":">>, p.IgnoreExtraElements),
            <<",">>)
    \o <<"}">>

\* json.Marshal of m.Request.BodyPatterns
marshalBodyPatterns(bps) ==
    <<"[">> \o Join([i \in DOMAIN bps |-> marshalBodyPattern(bps[i])], <<",">>) \o <<"]">>

\* deduplicationKey
deduplicationKey(m) ==
    m.Request.Method \o <<" ">>
    \o (IF m.Request.URL = <<>> THEN m.Request.URLPath ELSE m.Request.URL)
    \o (IF Cardinality(DOMAIN m.Request.QueryParameters) > 0
        THEN <<" ">> \o marshalQueryParameters(m.Request.QueryParameters,
                                              SortedSeq(DOMAIN m.Request.QueryParameters))
        ELSE <<>>)
    \o (IF Len(m.Request.BodyPatterns) > 0
        THEN <<" ">> \o marshalBodyPatterns(m.Request.BodyPatterns)
        ELSE <<>>)

\* sortMappings: the less function of the sort
mappingLess(a, b) ==
    IF a.Name # b.Name THEN StrLess(a.Name, b.Name)
    ELSE StrLess(deduplicationKey(a), deduplicationKey(b))

\* sort.SliceStable of sortMappings: x put behind the mappings that are not
\* greater
RECURSIVE insertMapping(_, _)
insertMapping(x, sorted) ==
    IF sorted = <<>> THEN <<x>>
    ELSE IF mappingLess(x, Head(sorted)) THEN <<x>> \o sorted
    ELSE <<Head(sorted)>> \o insertMapping(x, Tail(sorted))

RECURSIVE sortFrom(_, _)
sortFrom(sorted, rest) ==
    IF rest = <<>> THEN sorted
    ELSE sortFrom(insertMapping(Head(rest), sorted), Tail(rest))

MutSortMappingsKeeps(ms) == ms

\* sortMappings
sortMappings(ms) == sortFrom(<<>>, ms)

\* exchangesToMappings: seen[key], 0 when the key does not exist
seenIndex(entries, key) ==
    IF \E idx \in DOMAIN entries : entries[idx].key = key
    THEN CHOOSE idx \in DOMAIN entries : entries[idx].key = key
    ELSE 0

\* exchangesToMappings: one pass of the loop, given the index seen[key]
MutPutEntryKeepsFirst(entries, idx, key, m) ==
    IF idx # 0 THEN entries ELSE Append(entries, [key |-> key, mapping |-> m])

putEntry(entries, idx, key, m) ==
    IF idx # 0 THEN [entries EXCEPT ![idx].mapping = m]
    ELSE Append(entries, [key |-> key, mapping |-> m])

\* exchangesToMappings: the loop over the exchanges, converted to ms
RECURSIVE dedupFrom(_, _, _)
dedupFrom(entries, ms, keys) ==
    IF ms = <<>> THEN entries
    ELSE dedupFrom(putEntry(entries, seenIndex(entries, Head(keys)), Head(keys), Head(ms)),
                   Tail(ms), Tail(keys))

\* exchangesToMappings: the mappings of the entries
entryMappings(entries) == [i \in DOMAIN entries |-> entries[i].mapping]

\* exchangesToMappings, given the conversions ms of the exchanges
dedupMappings(ms) ==
    sortMappings(entryMappings(dedupFrom(<<>>, ms,
                                         [i \in DOMAIN ms |-> deduplicationKey(ms[i])])))

\* the conversions of the exchanges; keys[i] is the order of the header loop
\* in the conversion of exchange i
convertAll(exchangeList, jsonContentTypes, preserveKeyOrder, sortArrayMembers, keys) ==
    [i \in DOMAIN exchangeList |->
        exchangeToMapping(exchangeList[i], jsonContentTypes, preserveKeyOrder,
                          sortArrayMembers, keys[i])]

\* exchangesToMappings
exchangesToMappings(exchangeList, jsonContentTypes, preserveKeyOrder, sortArrayMembers, keys) ==
    dedupMappings(convertAll(exchangeList, jsonContentTypes, preserveKeyOrder,
                             sortArrayMembers, keys))

\* exchangesToScenarioMappings: the key of the group of an exchange
groupKey(ex) == ex.Method \o <<" ">> \o ex.URL

\* exchangesToScenarioMappings: order, the group keys by first occurrence
RECURSIVE groupOrder(_, _)
groupOrder(order, exchangeList) ==
    IF exchangeList = <<>> THEN order
    ELSE groupOrder(IF \E i \in DOMAIN order : order[i] = groupKey(Head(exchangeList))
                    THEN order
                    ELSE Append(order, groupKey(Head(exchangeList))),
                    Tail(exchangeList))

\* groups[key].exchanges, as the positions of its exchanges from position i on
RECURSIVE groupExchanges(_, _, _)
groupExchanges(exchangeList, key, i) ==
    IF i > Len(exchangeList) THEN <<>>
    ELSE (IF groupKey(exchangeList[i]) = key THEN <<i>> ELSE <<>>)
         \o groupExchanges(exchangeList, key, i + 1)

\* fmt.Sprintf("state_%d", i)
stateName(i) == <<"s", "t", "a", "t", "e", "_">> \o IntToStr(i)

MutScenarioMappingNoEnd(m, scenarioName, i, n) ==
    [m EXCEPT !.ScenarioName = scenarioName,
              !.RequiredScenarioState = IF i = 0 THEN <<"S", "t", "a", "r", "t", "e", "d">> ELSE stateName(i),
              !.NewScenarioState = stateName(i + 1)]

\* the scenario fields of the exchange at index i of a group of n exchanges
scenarioMapping(m, scenarioName, i, n) ==
    [m EXCEPT !.ScenarioName = scenarioName,
              !.RequiredScenarioState = IF i = 0 THEN <<"S", "t", "a", "r", "t", "e", "d">> ELSE stateName(i),
              !.NewScenarioState = IF i < n - 1 THEN stateName(i + 1) ELSE <<>>]

\* the mappings of one group: g holds the positions of its exchanges and ms
\* the conversions of all exchanges
groupMappings(exchangeList, g, ms) ==
    IF Len(g) = 1 THEN <<ms[g[1]]>>
    ELSE [k \in DOMAIN g |->
            scenarioMapping(ms[g[k]], generateMappingName(exchangeList[g[1]].URL),
                            k - 1, Len(g))]

\* the loop over order: the mappings of the groups, one group after the other
RECURSIVE scenarioFrom(_, _, _)
scenarioFrom(exchangeList, order, ms) ==
    IF order = <<>> THEN <<>>
    ELSE groupMappings(exchangeList, groupExchanges(exchangeList, Head(order), 1), ms)
         \o scenarioFrom(exchangeList, Tail(order), ms)

\* exchangesToScenarioMappings
exchangesToScenarioMappings(exchangeList, jsonContentTypes, preserveKeyOrder, sortArrayMembers, keys) ==
    sortMappings(scenarioFrom(exchangeList, groupOrder(<<>>, exchangeList),
                              convertAll(exchangeList, jsonContentTypes, preserveKeyOrder,
                                         sortArrayMembers, keys)))

-----------------------------------------------------------------------------
(* The match engine as a state machine: server.go *)

\* the bound on the number of stubs in the repository
MaxStubs == 3

\* the handlers that run at the same time
Handlers == {"h1", "h2"}

InitMatch ==
    /\ mappings = <<>>
    /\ req = NoRequest
    /\ res1 = NoResult
    /\ res2 = NoResult
    /\ evals = <<>>
    /\ scanned = 0

\* NewRecordServer, and no handler running
InitRec ==
    /\ exchanges = <<>>
    /\ mu = "free"
    /\ pc = [h \in Handlers |-> "idle"]
    /\ loc = [h \in Handlers |-> NoLocals]
    /\ appended = {}
    /\ exported = <<>>
    /\ cleared = {}
    /\ nextId = 1

\* the media type that is always a JSON type
ApplicationJSON == <<"a", "p", "p", "l", "i", "c", "a", "t", "i", "o", "n", "/", "j", "s", "o", "n">>

\* ParseJSONContentTypes: the entries of the environment variable that are
\* appended to application/json
RECURSIVE appendTypes(_, _)
appendTypes(types, entries) ==
    IF entries = <<>> THEN types
    ELSE appendTypes(IF TrimSpace(Head(entries)) # <<>>
                        /\ TrimSpace(Head(entries)) # ApplicationJSON
                     THEN Append(types, TrimSpace(Head(entries)))
                     ELSE types,
                     Tail(entries))

MutParseJSONContentTypesBare(env) ==
    IF env # <<>> THEN appendTypes(<<>>, Split(env, ",")) ELSE <<>>

\* ParseJSONContentTypes, env the value of JSON_CONTENT_TYPES
ParseJSONContentTypes(env) ==
    IF env # <<>> THEN appendTypes(<<ApplicationJSON>>, Split(env, ","))
    ELSE <<ApplicationJSON>>

\* NewRecordServer: the options of the conversion
Config(preserveKeyOrder, sortArrayMembers) ==
    [jsonContentTypes |-> <<ApplicationJSON>>, preserveKeyOrder |-> preserveKeyOrder,
     sortArrayMembers |-> sortArrayMembers]

\* no call of SortArrays yet
InitJson ==
    /\ sortArg = JNull
    /\ sortArg0 = JNull
    /\ sortRet = <<>>
    /\ jsonEnv = <<>>
    /\ classified = "none"

\* a SnapshotRequest
SnapshotRequest(URLPattern, RepeatsAsScenarios) ==
    [URLPattern |-> URLPattern, RepeatsAsScenarios |-> RepeatsAsScenarios]

\* no answer of handleSnapshot yet
NoSnapshot == [sent |-> FALSE, status |-> 0, body |-> <<>>]

\* sync.RWMutex: nobody holds it
Unlocked == [writer |-> "none", readers |-> {}]

\* matchRequest: bestMatch, bestScore and bestMatched before the loop
ScanStart == [bestMatched |-> FALSE, bestScore |-> 0, bestMatch |-> NoResult]

\* the local variables of a handler of the replay server: the request, the
\* length the range loop of matchRequest has read, the index of the loop,
\* the best result so far and, as history, the repository at RLock; or the
\* stubs an admin request is about to write
NoScan ==
    [rq |-> NoRequest, n |-> 0, i |-> 0, st |-> ScanStart, seen |-> <<>>,
     op |-> "none", stubs |-> <<>>]

\* NewServer, no snapshot and no proxied request yet
InitSrv ==
    /\ snapReq = SnapshotRequest(<<>>, FALSE)
    /\ snapResp = NoSnapshot
    /\ snapBefore = <<>>
    /\ smu = Unlocked
    /\ spc = [h \in Handlers |-> "idle"]
    /\ sloc = [h \in Handlers |-> NoScan]
    /\ adminLog = <<>>
    /\ replies = <<>>

InitConv ==
    /\ config = Config(FALSE, FALSE)
    /\ convIn = <<>>
    /\ convOut = <<>>
    /\ converted = FALSE

Init == InitMatch /\ InitRec /\ InitConv /\ InitJson /\ InitSrv

\* a change of the repository ends the scans of the old one
Forget ==
    /\ req' = NoRequest
    /\ res1' = NoResult
    /\ res2' = NoResult
    /\ evals' = <<>>
    /\ scanned' = 0

\* POST /__admin/mappings: addMapping
AddMapping ==
    \E m \in StubPool :
        /\ Len(mappings) < MaxStubs
        /\ mappings' = Append(mappings, m)
        /\ Forget
        /\ UNCHANGED <<recVars, convVars, jsonVars, srvVars>>

\* POST /__admin/mappings/import: loadMappings
LoadMappings ==
    \E wm \in ImportPool :
        /\ Len(mappings) + Len(wm) <= MaxStubs
        /\ mappings' = mappings \o wm
        /\ Forget
        /\ UNCHANGED <<recVars, convVars, jsonVars, srvVars>>

\* DELETE /__admin/mappings, POST /__admin/reset: clearMappings
ClearMappings ==
    /\ mappings # <<>>
    /\ mappings' = <<>>
    /\ Forget
    /\ UNCHANGED <<recVars, convVars, jsonVars, srvVars>>

\* handleRequest reads a request that is not an admin request
Receive ==
    \E r \in RequestPool :
        /\ req' = r
        /\ res1' = NoResult
        /\ res2' = NoResult
        /\ evals' = <<>>
        /\ scanned' = 0
        /\ UNCHANGED <<mappings, recVars, convVars, jsonVars, srvVars>>

\* handleRequest calls matchRequest
Scan ==
    \E qOrd \in Perms(QNames), hOrd \in Perms(HNames) :
        /\ req # NoRequest
        /\ scanned = 0
        /\ evals' = evaluateAll(mappings, req, qOrd, hOrd)
        /\ res1' = matchRequest(mappings, evals')
        /\ scanned' = 1
        /\ UNCHANGED <<mappings, req, res2, recVars, convVars, jsonVars, srvVars>>

\* the same request once more, the repository unchanged
Rescan ==
    \E qOrd \in Perms(QNames), hOrd \in Perms(HNames) :
        /\ scanned = 1
        /\ res2' = matchOf(mappings, req, qOrd, hOrd)
        /\ scanned' = 2
        /\ UNCHANGED <<mappings, req, res1, evals, recVars, convVars, jsonVars, srvVars>>

Next == AddMapping \/ LoadMappings \/ ClearMappings \/ Receive \/ Scan \/ Rescan

Spec == Init /\ [][Next]_vars

\* the sequences over S of length at most n
SeqsUpTo(S, n) == UNION {[1..k -> S] : k \in 0..n}

\* the match engine on a repository that holds StubWide
InitWide ==
    /\ mappings \in SeqsUpTo(WidePool, MaxStubs)
    /\ req \in WideRequests
    /\ res1 = NoResult
    /\ res2 = NoResult
    /\ evals = <<>>
    /\ scanned = 0
    /\ InitRec
    /\ InitJson
    /\ InitSrv
    /\ InitConv

NextScan == Scan \/ Rescan

SpecWide == InitWide /\ [][NextScan]_vars

-----------------------------------------------------------------------------
(* The record server as a state machine: one handler per request in flight *)

\* the bound on the number of proxied requests
MaxExchanges == 3

\* the exchanges the upstream answers with
RecExchangePool ==
    {Exchange(GET, UriA, <<>>, 200, <<>>, <<>>),
     Exchange(GET, UriB, <<>>, 200, <<>>, <<>>)}

\* the urlPattern filters of the snapshot requests: none, /a, ((?!/a).)*, (
FilterPool ==
    {<<>>, UriA, <<"(", "(", "?", "!", "/", "a", ")", ".", ")", "*">>, S1("(")}

\* proxyAndRecord up to rs.mu.Lock(): the upstream fails and nothing is
\* recorded, or it answers and the handler takes the mutex
ProxyRequest(h) ==
    /\ pc[h] = "idle"
    /\ nextId <= MaxExchanges
    /\ \E ex \in RecExchangePool, err \in BOOLEAN :
          IF err
          THEN UNCHANGED <<mu, pc, loc, nextId>>
          ELSE /\ CanLock(mu)
               /\ mu' = h
               /\ pc' = [pc EXCEPT ![h] = "append"]
               /\ loc' = [loc EXCEPT ![h].exchange = [ex EXCEPT !.id = nextId]]
               /\ nextId' = nextId + 1
    /\ UNCHANGED <<exchanges, appended, exported, cleared, matchVars, convVars, jsonVars, srvVars>>

\* proxyAndRecord: the append, and rs.mu.Unlock()
AppendExchange(h) ==
    /\ pc[h] = "append"
    /\ exchanges' = Append(exchanges, loc[h].exchange)
    /\ appended' = appended \cup {loc[h].exchange.id}
    /\ mu' = "free"
    /\ pc' = [pc EXCEPT ![h] = "idle"]
    /\ loc' = [loc EXCEPT ![h] = NoLocals]
    /\ UNCHANGED <<exported, cleared, nextId, matchVars, convVars, jsonVars, srvVars>>

\* handleSnapshot up to rs.mu.Lock()
SnapshotLock(h) ==
    /\ pc[h] = "idle"
    /\ CanLock(mu)
    /\ \E URLPattern \in FilterPool :
          loc' = [loc EXCEPT ![h].URLPattern = URLPattern]
    /\ mu' = h
    /\ pc' = [pc EXCEPT ![h] = "filter"]
    /\ UNCHANGED <<exchanges, appended, exported, cleared, nextId, matchVars, convVars, jsonVars, srvVars>>

\* handleSnapshot: the loop over rs.exchanges, or the copy
SnapshotFilter(h) ==
    /\ pc[h] = "filter"
    /\ loc' = [loc EXCEPT ![h].filtered = filteredOf(loc[h].URLPattern, exchanges),
                          ![h].remaining = remainingOf(loc[h].URLPattern, exchanges)]
    /\ pc' = [pc EXCEPT ![h] = "drain"]
    /\ UNCHANGED <<exchanges, mu, appended, exported, cleared, nextId, matchVars,
                   convVars, jsonVars, srvVars>>

\* handleSnapshot: the assignment to rs.exchanges, and rs.mu.Unlock()
SnapshotDrain(h) ==
    /\ pc[h] = "drain"
    /\ exchanges' = loc[h].remaining
    /\ mu' = "free"
    /\ pc' = [pc EXCEPT ![h] = "convert"]
    /\ UNCHANGED <<loc, appended, exported, cleared, nextId, matchVars, convVars, jsonVars, srvVars>>

\* handleSnapshot: filtered is handed to the conversion
SnapshotConvert(h) ==
    /\ pc[h] = "convert"
    /\ exported' = IF loc[h].filtered = <<>> THEN exported
                   ELSE Append(exported, loc[h].filtered)
    /\ pc' = [pc EXCEPT ![h] = "idle"]
    /\ loc' = [loc EXCEPT ![h] = NoLocals]
    /\ UNCHANGED <<exchanges, mu, appended, cleared, nextId, matchVars, convVars, jsonVars, srvVars>>

\* clearExchanges up to rs.mu.Lock()
ClearLock(h) ==
    /\ pc[h] = "idle"
    /\ CanLock(mu)
    /\ exchanges # <<>>
    /\ mu' = h
    /\ pc' = [pc EXCEPT ![h] = "clear"]
    /\ UNCHANGED <<exchanges, loc, appended, exported, cleared, nextId, matchVars,
                   convVars, jsonVars, srvVars>>

\* clearExchanges: the assignment to rs.exchanges, and rs.mu.Unlock()
ClearExchanges(h) ==
    /\ pc[h] = "clear"
    /\ cleared' = cleared \cup {exchanges[i].id : i \in 1..Len(exchanges)}
    /\ exchanges' = <<>>
    /\ mu' = "free"
    /\ pc' = [pc EXCEPT ![h] = "idle"]
    /\ UNCHANGED <<loc, appended, exported, nextId, matchVars, convVars, jsonVars, srvVars>>

NextRec ==
    \E h \in Handlers :
        \/ ProxyRequest(h)
        \/ AppendExchange(h)
        \/ SnapshotLock(h)
        \/ SnapshotFilter(h)
        \/ SnapshotDrain(h)
        \/ SnapshotConvert(h)
        \/ ClearLock(h)
        \/ ClearExchanges(h)

SpecRec == Init /\ [][NextRec]_vars

\* urlPath /b, ANY, no further criterion
StubPathB == Stub(S1("b"), <<"A", "N", "Y">>, <<>>, UriB, <<>>, <<>>, <<>>, <<>>)

\* the stubs added to a record server
RecordStubPool == {StubExact, StubPathB}

\* handleRecordAdmin, POST /__admin/mappings: delegated to the admin handler
\* of the replay server, addMapping
RecordAddMapping ==
    \E m \in RecordStubPool :
        /\ Len(mappings) < MaxStubs
        /\ mappings' = Append(mappings, m)
        /\ Forget
        /\ UNCHANGED <<recVars, convVars, jsonVars, srvVars>>

\* a record server that is given stubs and requests
NextRecordStubs ==
    \/ RecordAddMapping
    \/ \E h \in Handlers : ProxyRequest(h) \/ AppendExchange(h)

SpecRecordStubs == Init /\ [][NextRecordStubs]_vars

-----------------------------------------------------------------------------
(* Claims on matchRequest *)

\* stub i passes all five criteria for the scanned request
FullyMatches(i) ==
    /\ evals[i].MethodMatch
    /\ evals[i].URLMatch
    /\ evals[i].QueryMatch
    /\ evals[i].BodyMatch
    /\ evals[i].HeaderMatch

Stubs == 1..Len(mappings)

\* C1: matchRequest returns Matched = true if and only if some stub of the
\* repository fully matches the request; the stub it then returns is one of
\* the fully matching stubs, whatever stubs that do not match precede it; an
\* empty repository yields Matched = false and no stub.
C1_MatchedIffSomeStubMatches ==
    scanned >= 1 =>
        /\ res1.Matched <=> \E i \in Stubs : FullyMatches(i)
        /\ res1.Matched => res1.Mapping \in Stubs /\ FullyMatches(res1.Mapping)
        /\ mappings = <<>> => ~res1.Matched /\ res1.Mapping = 0

\* a full match is returned although a stub before it does not match and has
\* a diagnostic score above the specificity of the match
C1_Witness ==
    /\ scanned >= 1
    /\ res1.Matched
    /\ \E i \in Stubs :
          /\ i < res1.Mapping
          /\ ~FullyMatches(i)
          /\ diagnosticScore(evals[i]) > specificity(mappings[res1.Mapping])

\* the specificity score as the claim C2 states it
C2_Score(m) ==
    Cardinality(DOMAIN m.Request.QueryParameters) + Len(m.Request.BodyPatterns)
    + Cardinality(DOMAIN m.Request.Headers) + (IF m.Request.URL = <<>> THEN 0 ELSE 100)

\* C2: among the stubs that fully match, matchRequest returns one of the
\* highest specificity score, and among those of that score the one inserted
\* first.
C2_MostSpecificFirstWins ==
    (scanned >= 1 /\ res1.Matched) =>
        \A i \in Stubs :
            FullyMatches(i) =>
                \/ C2_Score(mappings[i]) < C2_Score(mappings[res1.Mapping])
                \/ /\ C2_Score(mappings[i]) = C2_Score(mappings[res1.Mapping])
                   /\ res1.Mapping <= i

\* the returned stub follows a match of lower score and precedes one of its
\* own score
C2_Witness ==
    /\ scanned >= 1
    /\ res1.Matched
    /\ \E i, j \in Stubs :
          /\ i < res1.Mapping
          /\ res1.Mapping < j
          /\ FullyMatches(i)
          /\ FullyMatches(j)
          /\ C2_Score(mappings[i]) < C2_Score(mappings[res1.Mapping])
          /\ C2_Score(mappings[j]) = C2_Score(mappings[res1.Mapping])

\* C3: when a stub with an exact url and a stub with urlPath or urlPattern
\* both fully match, matchRequest selects a stub with an exact url, whatever
\* the numbers of their criteria.
C3_ExactURLAlwaysWins ==
    (/\ scanned >= 1
     /\ \E i \in Stubs : FullyMatches(i) /\ mappings[i].Request.URL # <<>>)
        => /\ res1.Matched
           /\ mappings[res1.Mapping].Request.URL # <<>>

\* the first stub of the highest diagnostic score
NearestMiss ==
    CHOOSE k \in Stubs :
        \A i \in Stubs :
            \/ diagnosticScore(evals[i]) < diagnosticScore(evals[k])
            \/ diagnosticScore(evals[i]) = diagnosticScore(evals[k]) /\ k <= i

\* C4: on a non-empty repository of which no stub fully matches, matchRequest
\* returns Matched = false with the first stub of the highest diagnostic
\* score, and the flags and diff records of that stub.
C4_NearestMissReturned ==
    (/\ scanned >= 1
     /\ mappings # <<>>
     /\ \A i \in Stubs : ~FullyMatches(i))
        => /\ ~res1.Matched
           /\ res1.Mapping = NearestMiss
           /\ res1 = [evals[NearestMiss] EXCEPT !.Mapping = NearestMiss]

\* C5: two calls of matchRequest with the same request and the same
\* repository return identical MatchResults, diff records and their order
\* included.
C5_Deterministic == scanned = 2 => res1 = res2

-----------------------------------------------------------------------------
(* The query criterion on its own *)

\* the bound on the number of values of one query parameter
MaxVals == 3

\* the values the matchers expect
QueryValues == {S1("1"), S1("2")}

\* the values as requests write them: %31 is the escaped form of 1
RawQueryValues == QueryValues \cup {S3("%", "3", "1")}

\* the matchers of parameter x: equalTo, hasExactly, and one with both fields
QueryMatchers ==
    {QEqualTo(v) : v \in QueryValues}
    \cup {QHasExactly(vs) : vs \in SeqsUpTo(QueryValues, MaxVals)}
    \cup {[EqualTo |-> S1("1"), HasExactly |-> <<S1("2")>>]}

\* urlPath /a, ANY, the query matchers qp
QueryStub(qp) == Stub(S1("a"), <<"A", "N", "Y">>, <<>>, UriA, <<>>, qp, <<>>, <<>>)

QueryStubs ==
    {QueryStub(<<>>)}
    \cup {QueryStub(S1("x") :> m) : m \in QueryMatchers}
    \cup {QueryStub((S1("x") :> m) @@ (S1("y") :> QEqualTo(S1("1")))) :
             m \in QueryMatchers}

\* the raw URI with the given path and arguments
UriOf(path, args) ==
    IF args = <<>> THEN path
    ELSE path \o <<"?">>
         \o Join([i \in 1..Len(args) |-> args[i].key \o <<"=">> \o args[i].value],
                 <<"&">>)

Arg(key, value) == [key |-> key, value |-> value]

\* requests with up to MaxVals values of x, with or without a parameter c
\* before them and a parameter y after them
QueryRequests ==
    {Request(GET, UriOf(UriA, pre \o [i \in 1..Len(vs) |-> Arg(S1("x"), vs[i])] \o post),
             <<>>, <<>>) :
        vs \in SeqsUpTo(RawQueryValues, MaxVals),
        pre \in {<<>>, <<Arg(S1("c"), S1("1"))>>},
        post \in {<<>>, <<Arg(S1("y"), S1("1"))>>}}

InitQuery ==
    /\ mappings \in {<<m>> : m \in QueryStubs}
    /\ req \in QueryRequests
    /\ res1 = NoResult
    /\ res2 = NoResult
    /\ evals = <<>>
    /\ scanned = 0
    /\ InitRec
    /\ InitJson
    /\ InitSrv
    /\ InitConv

SpecQuery == InitQuery /\ [][NextScan]_vars

\* the number of values v the request carries for the parameter name
C6_Carried(name, v) ==
    Cardinality({i \in DOMAIN QueryArgs(req.uri) :
                    QueryArgs(req.uri)[i] = Arg(name, v)})

\* the number of times the matcher expects the value v: a matcher with a
\* non-empty equalTo expects that one value, any other its hasExactly list
C6_Expected(matcher, v) ==
    IF matcher.EqualTo # <<>> THEN (IF matcher.EqualTo = v THEN 1 ELSE 0)
    ELSE Cardinality({i \in DOMAIN matcher.HasExactly : matcher.HasExactly[i] = v})

-----------------------------------------------------------------------------
(* The body criterion on its own *)

\* the bound on the number of body patterns of a stub
MaxPatterns == 2

\* body patterns: without equalToJson, with a JSON value, with a JSON string
\* that holds JSON text, and with a JSON string that holds text cut short
BodyPatternPool ==
    {BNoJson, BEqualToJson(JsonAB), BEqualToJson(JsonBAws), BEqualToJson(Quote(JsonAB)),
     BEqualToJson(Json12), BEqualToJson(Quote(JsonCut))}

\* urlPath /a, ANY, the body patterns bps
BodyStub(bps) == Stub(S1("a"), <<"A", "N", "Y">>, <<>>, UriA, <<>>, <<>>, bps, <<>>)

BodyPool == {<<>>, JsonAB, JsonBAws, Json12, Json21, JsonCut}

InitBody ==
    /\ mappings \in {<<BodyStub(bps)>> : bps \in SeqsUpTo(BodyPatternPool, MaxPatterns)}
    /\ req \in {Request(POST, UriA, body, <<>>) : body \in BodyPool}
    /\ res1 = NoResult
    /\ res2 = NoResult
    /\ evals = <<>>
    /\ scanned = 0
    /\ InitRec
    /\ InitJson
    /\ InitSrv
    /\ InitConv

SpecBody == InitBody /\ [][NextScan]_vars

\* the expected value of a pattern: its equalToJson parsed, and parsed once
\* more when that is a JSON string
C7_ExpectedValue(raw) ==
    IF Unmarshal(raw).ok /\ Unmarshal(raw).v.k = "str"
    THEN Unmarshal(Unmarshal(raw).v.s)
    ELSE Unmarshal(raw)

\* the request body parses and serializes to the bytes the expected value of
\* the pattern serializes to
C7_Equal(raw, body) ==
    /\ Unmarshal(body).ok
    /\ C7_ExpectedValue(raw).ok
    /\ Marshal(Unmarshal(body).v) = Marshal(C7_ExpectedValue(raw).v)

\* the stubs with at least one body pattern whose body criterion passes
C7_Passing == {i \in Stubs : mappings[i].Request.BodyPatterns # <<>> /\ evals[i].BodyMatch}

\* C7 as stated: the body criterion of a stub with at least one body pattern
\* passes only if, for every one of its body patterns, the request body parses
\* as JSON and serializes to the bytes of the pattern's expected value.
C7_EveryPatternEqual ==
    scanned >= 1 =>
        \A i \in C7_Passing :
            \A k \in DOMAIN mappings[i].Request.BodyPatterns :
                /\ Unmarshal(req.body).ok
                /\ mappings[i].Request.BodyPatterns[k].has
                       => C7_Equal(mappings[i].Request.BodyPatterns[k].EqualToJSON, req.body)

\* C7 amended: the body criterion of a stub with at least one body pattern
\* passes only if, for every one of its body patterns that carries an
\* equalToJson value, the request body parses as JSON and serializes to the
\* bytes of the pattern's expected value (parsed a second time when it is a
\* JSON string); patterns {"a":1,"b":2} pass on the body { "b":2, "a":1 }
\* (whitespace and key order do not count), a pattern [1,2] fails on the body
\* [2,1] (array order counts).
C7_EveryJsonPatternEqual ==
    scanned >= 1 =>
        /\ \A i \in C7_Passing :
              \A k \in DOMAIN mappings[i].Request.BodyPatterns :
                  mappings[i].Request.BodyPatterns[k].has
                      => C7_Equal(mappings[i].Request.BodyPatterns[k].EqualToJSON, req.body)
        /\ \A i \in Stubs :
              /\ (/\ req.body \in {JsonAB, JsonBAws}
                  /\ \A k \in DOMAIN mappings[i].Request.BodyPatterns :
                        mappings[i].Request.BodyPatterns[k]
                            \in {BEqualToJson(JsonAB), BEqualToJson(JsonBAws),
                                 BEqualToJson(Quote(JsonAB))})
                    => evals[i].BodyMatch
              /\ (/\ req.body = Json21
                  /\ \E k \in DOMAIN mappings[i].Request.BodyPatterns :
                        mappings[i].Request.BodyPatterns[k] = BEqualToJson(Json12))
                    => ~evals[i].BodyMatch

\* a pattern held as a JSON string and a pattern without equalToJson pass on a
\* body with other whitespace and key order
C7_Witness ==
    /\ scanned >= 1
    /\ mappings # <<>>
    /\ mappings[1].Request.BodyPatterns = <<BEqualToJson(Quote(JsonAB)), BNoJson>>
    /\ req.body = JsonBAws
    /\ evals[1].BodyMatch

-----------------------------------------------------------------------------
(* Claims on the Exchange Recorder *)

\* whether the exchange list exs holds the exchange of the given id
C8_Holds(exs, id) == \E i \in DOMAIN exs : exs[i].id = id

\* the number of places that hold the appended exchange id: the recorder, the
\* snapshots that have drained and not yet converted, the conversions so far
C8_Places(id) ==
    (IF C8_Holds(exchanges, id) THEN 1 ELSE 0)
    + Cardinality({h \in Handlers : pc[h] = "convert" /\ C8_Holds(loc[h].filtered, id)})
    + Cardinality({k \in DOMAIN exported : C8_Holds(exported[k], id)})

\* C8: whatever the interleaving of appends and snapshots, every appended
\* exchange that no clear removed is either held by the recorder or was
\* drained by exactly one snapshot, never lost and never exported twice.
C8_AppendedHeldOrExportedOnce ==
    \A id \in appended \ cleared : C8_Places(id) = 1

\* a handler appends between the drain of a snapshot and its conversion,
\* after an earlier snapshot was converted
C8_Witness ==
    /\ exported # <<>>
    /\ \E h1, h2 \in Handlers :
          /\ pc[h1] = "convert"
          /\ loc[h1].filtered # <<>>
          /\ pc[h2] = "append"

\* the exchanges of exs the filter takes (want) or leaves (~want), in order
C9_Select(exs, URLPattern, want) ==
    SelectSeq(exs, LAMBDA ex :
        (URLPattern = <<>> \/ compileURLMatcher(URLPattern, ex.URL)) <=> want)

\* C9: the drain of a snapshot hands to conversion exactly the recorded
\* exchanges whose URL matches the filter, in recorded order, and leaves in
\* the recorder exactly the others, in recorded order; without a filter it
\* hands over all of them and leaves the recorder empty.
C9_DrainPartitions ==
    [][\A h \in Handlers :
          (pc[h] = "drain" /\ pc'[h] = "convert") =>
              /\ loc'[h].filtered = C9_Select(exchanges, loc[h].URLPattern, TRUE)
              /\ exchanges' = C9_Select(exchanges, loc[h].URLPattern, FALSE)
              /\ loc[h].URLPattern = <<>> =>
                    loc'[h].filtered = exchanges /\ exchanges' = <<>>]_vars

\* a snapshot with the filter /a has drained two exchanges and left one
C9_Witness ==
    \E h \in Handlers :
        /\ pc[h] = "convert"
        /\ loc[h].URLPattern = UriA
        /\ Len(loc[h].filtered) = 2
        /\ Len(exchanges) = 1
        /\ exchanges[1].id < loc[h].filtered[2].id

-----------------------------------------------------------------------------
(* The conversion of a snapshot as a state machine *)

\* the bound on the number of exchanges handed to one conversion
MaxConv == 3

ContentType == <<"C", "o", "n", "t", "e", "n", "t", "-", "T", "y", "p", "e">>

\* the response headers of the upstream: JSON, and JSON with a Date header
JsonHeaders == ContentType :> <<ApplicationJSON>>

DatedHeaders == (ContentType :> <<ApplicationJSON>>) @@ (<<"D", "a", "t", "e">> :> <<S1("1")>>)

\* the names of the response headers
RespHeaderNames == {ContentType, <<"D", "a", "t", "e">>}

\* /a?x=1
UriAx1 == <<"/", "a", "?", "x", "=", "1">>

\* /a?x=%31
UriAx1Escaped == <<"/", "a", "?", "x", "=", "%", "3", "1">>

\* the exchanges handed to the conversion: two of GET /a?x=1 whose URIs
\* differ in an escape, two of POST /a whose bodies differ in key order and
\* whitespace
ConvExchangePool ==
    {Exchange(GET, UriAx1, <<>>, 200, DatedHeaders, S1("1")),
     Exchange(GET, UriAx1Escaped, <<>>, 200, <<>>, S1("2")),
     Exchange(POST, UriA, JsonAB, 200, JsonHeaders, S1("1")),
     Exchange(POST, UriA, JsonBAws, 200, JsonHeaders, Json21)}

InitConvert ==
    /\ InitMatch
    /\ InitRec
    /\ InitJson
    /\ InitSrv
    /\ config \in {Config(p, a) : p, a \in BOOLEAN}
    /\ convIn \in SeqsUpTo(ConvExchangePool, MaxConv)
    /\ convOut = <<>>
    /\ converted = FALSE

\* handleSnapshot with repeatsAsScenarios = false: exchangesToMappings
ConvertExchanges ==
    /\ ~converted
    /\ \E keys \in [DOMAIN convIn -> Perms(RespHeaderNames)] :
          convOut' = exchangesToMappings(convIn, config.jsonContentTypes,
                                         config.preserveKeyOrder, config.sortArrayMembers,
                                         keys)
    /\ converted' = TRUE
    /\ UNCHANGED <<config, convIn, matchVars, recVars, jsonVars, srvVars>>

SpecConv == InitConvert /\ [][ConvertExchanges]_vars

\* handleSnapshot with repeatsAsScenarios = true: exchangesToScenarioMappings
ConvertScenarios ==
    /\ ~converted
    /\ \E keys \in [DOMAIN convIn -> Perms(RespHeaderNames)] :
          convOut' = exchangesToScenarioMappings(convIn, config.jsonContentTypes,
                                                 config.preserveKeyOrder,
                                                 config.sortArrayMembers, keys)
    /\ converted' = TRUE
    /\ UNCHANGED <<config, convIn, matchVars, recVars, jsonVars, srvVars>>

SpecScenarios == InitConvert /\ [][ConvertScenarios]_vars

\* exchanges of two stub names; those of the name a differ in the key
SortExchangePool ==
    {Exchange(GET, UriB, <<>>, 200, JsonHeaders, S1("1")),
     Exchange(GET, UriAx1, <<>>, 200, DatedHeaders, S1("1")),
     Exchange(GET, UriA, <<>>, 200, <<>>, S1("2")),
     Exchange(POST, UriA, <<>>, 200, JsonHeaders, S1("1"))}

InitSnapshot ==
    /\ InitMatch
    /\ InitRec
    /\ InitJson
    /\ InitSrv
    /\ config \in {Config(p, a) : p, a \in BOOLEAN}
    /\ convIn \in SeqsUpTo(SortExchangePool, MaxConv)
    /\ convOut = <<>>
    /\ converted = FALSE

\* handleSnapshot: the conversion in either mode
NextSnapshot == ConvertExchanges \/ ConvertScenarios

SpecSnapshot == InitSnapshot /\ [][NextSnapshot]_vars

\* the arguments of the recorded URIs: x as 1 and as %31, y, and x written %78
MappingArgs ==
    {Arg(S1("x"), S1("1")), Arg(S1("x"), S3("%", "3", "1")), Arg(S1("y"), S1("2")),
     Arg(S3("%", "7", "8"), S1("2"))}

\* the recorded URIs: /a and /b with up to MaxVals arguments, /a?c with an
\* argument without a value, and /a? with an empty query string
MappingUris ==
    {UriOf(path, args) : path \in {UriA, UriB}, args \in SeqsUpTo(MappingArgs, MaxVals)}
    \cup {<<"/", "a", "?", "c">>, <<"/", "a", "?">>}

\* one recorded exchange
InitMapping ==
    /\ InitMatch
    /\ InitRec
    /\ InitJson
    /\ InitSrv
    /\ config \in {Config(p, a) : p, a \in BOOLEAN}
    /\ convIn \in {<<Exchange(GET, uri, <<>>, 200, JsonHeaders, S1("1"))>> :
                      uri \in MappingUris}
    /\ convOut = <<>>
    /\ converted = FALSE

\* exchangeToMapping on the recorded exchange
MapExchange ==
    /\ ~converted
    /\ \E keys \in Perms(RespHeaderNames) :
          convOut' = <<exchangeToMapping(convIn[1], config.jsonContentTypes,
                                         config.preserveKeyOrder, config.sortArrayMembers,
                                         keys)>>
    /\ converted' = TRUE
    /\ UNCHANGED <<config, convIn, matchVars, recVars, jsonVars, srvVars>>

SpecMapping == InitMapping /\ [][MapExchange]_vars

-----------------------------------------------------------------------------
(* SortArrays called on parsed JSON values *)

\* the bound on the number of elements of a flat array
MaxElems == 3

\* the bound on the number of calls in a row
MaxCalls == 2

JBool(b) == [k |-> "bool", b |-> b]

JNum(n) == [k |-> "num", n |-> n]

JStr(s) == [k |-> "str", s |-> s]

JArr(e) == [k |-> "arr", e |-> e]

JObj(m) == [k |-> "obj", m |-> m]

\* null, true, 2, 10, "a": as JSON text "a" < 10 < 2 < null < true
SortScalars == {JNull, JBool(TRUE), JNum(2), JNum(10), JStr(S1("a"))}

\* the scalars inside nested values
InnerScalars == {JNum(2), JNum(10), JStr(S1("a"))}

\* arrays of scalars
FlatArrays == {JArr(e) : e \in SeqsUpTo(SortScalars, MaxElems)}

\* arrays of up to two inner scalars
InnerArrays == {JArr(e) : e \in SeqsUpTo(InnerScalars, 2)}

\* objects with an array member and a scalar member
InnerObjects ==
    {JObj((S1("n") :> x) @@ (S1("k") :> arr)) : x \in InnerScalars, arr \in InnerArrays}

\* scalars, arrays of scalars, arrays of arrays, objects, arrays of objects,
\* arrays that mix arrays, objects and scalars
SortValues ==
    SortScalars \cup FlatArrays \cup InnerObjects
    \cup {JArr(e) : e \in SeqsUpTo(InnerArrays, 2)}
    \cup {JArr(<<o, p>>) : o, p \in {JObj(S1("n") :> x) : x \in InnerScalars}}
    \cup {JArr(<<o, arr, x>>) : o \in {JObj(S1("k") :> JArr(<<JNum(2), JNum(10)>>))},
                                arr \in InnerArrays, x \in InnerScalars}
    \cup {JObj(S1("o") :> o) : o \in InnerObjects}

\* a caller holds a parsed JSON value
InitSort ==
    /\ InitMatch
    /\ InitRec
    /\ InitSrv
    /\ InitConv
    /\ sortArg \in SortValues
    /\ sortArg0 = sortArg
    /\ sortRet = <<>>
    /\ jsonEnv = <<>>
    /\ classified = "none"

\* SortArrays(v) on the caller's value, and again on that same value
CallSortArrays ==
    /\ Len(sortRet) < MaxCalls
    /\ sortRet' = Append(sortRet, SortArrays(sortArg))
    /\ sortArg' = sortedInPlace(sortArg)
    /\ UNCHANGED <<sortArg0, jsonEnv, classified, matchVars, recVars, convVars, srvVars>>

SpecSort == InitSort /\ [][CallSortArrays]_vars

-----------------------------------------------------------------------------
(* The classification of a response by its Content-Type *)

\* the bound on the number of values of one response header
MaxHeaderVals == 2

\* the values of JSON_CONTENT_TYPES: unset, one type, two types with blanks
\* and an empty entry, a type in capitals, application/json itself
EnvPool ==
    {<<>>, <<"t", "e", "x", "t", "/", "p", "l", "a", "i", "n">>, <<" ", "t", "e", "x", "t", "/", "p", "l", "a", "i", "n", " ", ",", ",", "a", "p", "p", "l", "i", "c", "a", "t", "i", "o", "n", "/", "x">>, <<"T", "E", "X", "T", "/", "H", "T", "M", "L">>, ApplicationJSON}

\* the names of the header
TypeHeaderNames == {ContentType, <<"c", "o", "n", "t", "e", "n", "t", "-", "t", "y", "p", "e">>, <<"X", "-", "T", "y", "p", "e">>}

\* the values of the header
TypeHeaderValues ==
    {ApplicationJSON, <<"A", "p", "p", "l", "i", "c", "a", "t", "i", "o", "n", "/", "J", "S", "O", "N", ";", " ", "c", "h", "a", "r", "s", "e", "t", "=", "u", "t", "f", "-", "8">>, <<" ", "t", "e", "x", "t", "/", "p", "l", "a", "i", "n", " ", ";", "q", "=", "1">>, <<"t", "e", "x", "t", "/", "p", "l", "a", "i", "n">>, <<"t", "e", "x", "t", "/", "h", "t", "m", "l">>, <<"a", "p", "p", "l", "i", "c", "a", "t", "i", "o", "n", "/", "x">>}

\* a record server configured by the environment, and a recorded response
InitClassify ==
    /\ InitMatch
    /\ InitRec
    /\ InitSrv
    /\ sortArg = JNull
    /\ sortArg0 = JNull
    /\ sortRet = <<>>
    /\ jsonEnv \in EnvPool
    /\ classified = "none"
    /\ config = [Config(FALSE, FALSE) EXCEPT
                    !.jsonContentTypes = ParseJSONContentTypes(jsonEnv)]
    /\ convIn \in {<<Exchange(GET, UriA, <<>>, 200, name :> values, S1("1"))>> :
                      name \in TypeHeaderNames,
                      values \in SeqsUpTo(TypeHeaderValues, MaxHeaderVals) \ {<<>>}}
    /\ convOut = <<>>
    /\ converted = FALSE

\* exchangeToMapping: isJSONContentType(ex.RespHeaders, jsonContentTypes)
ClassifyResponse ==
    /\ classified = "none"
    /\ classified' = IF isJSONContentType(convIn[1].RespHeaders, config.jsonContentTypes)
                     THEN "json" ELSE "other"
    /\ UNCHANGED <<sortArg, sortArg0, sortRet, jsonEnv, matchVars, recVars, convVars, srvVars>>

SpecClassify == InitClassify /\ [][ClassifyResponse]_vars

-----------------------------------------------------------------------------
(* The conversion of JSON bodies *)

\* {"b":{"d":1,"c":[2,1]},"a":[{"z":1,"y":2}]}
JsonNested == <<"{", "\"", "b", "\"", ":", "{", "\"", "d", "\"", ":", "1", ",", "\"", "c", "\"", ":", "[", "2", ",", "1", "]", "}", ",", "\"", "a", "\"", ":", "[", "{", "\"", "z", "\"", ":", "1", ",", "\"", "y", "\"", ":", "2", "}", "]", "}">>

\* [{"b":1,"a":2},{"a":1}]
JsonObjects == <<"[", "{", "\"", "b", "\"", ":", "1", ",", "\"", "a", "\"", ":", "2", "}", ",", "{", "\"", "a", "\"", ":", "1", "}", "]">>

\* JSON bodies with objects whose keys are and are not in alphabetical order
KeyOrderBodies == {JsonAB, JsonBAws, JsonNested, JsonObjects, Json21}

\* one recorded exchange with a JSON request body and a JSON response
InitKeyOrder ==
    /\ InitMatch
    /\ InitRec
    /\ InitJson
    /\ InitSrv
    /\ config \in {Config(p, a) : p, a \in BOOLEAN}
    /\ convIn \in {<<Exchange(POST, UriA, reqBody, 200, JsonHeaders, respBody)>> :
                      reqBody, respBody \in KeyOrderBodies}
    /\ convOut = <<>>
    /\ converted = FALSE

SpecKeyOrder == InitKeyOrder /\ [][MapExchange]_vars

\* the response headers: application/json, a JSON type with a parameter under
\* a name in lower case, text/plain, and none
ResponseHeaderPool ==
    {JsonHeaders, <<"c", "o", "n", "t", "e", "n", "t", "-", "t", "y", "p", "e">> :> <<<<"A", "p", "p", "l", "i", "c", "a", "t", "i", "o", "n", "/", "J", "S", "O", "N", ";", " ", "c", "h", "a", "r", "s", "e", "t", "=", "u", "t", "f", "-", "8">>>>, ContentType :> <<<<"t", "e", "x", "t", "/", "p", "l", "a", "i", "n">>>>, <<>>}

\* the response bodies: JSON values, null, a text cut short, nothing, and
\* text that is no JSON
ResponseBodyPool ==
    {JsonAB, JsonBAws, Json21, S1("1"), <<"n", "u", "l", "l">>, JsonCut, <<>>, <<"o", "o", "p", "s">>}

\* one recorded exchange with the response of the upstream
InitResponse ==
    /\ InitMatch
    /\ InitRec
    /\ InitJson
    /\ InitSrv
    /\ config \in {Config(p, a) : p, a \in BOOLEAN}
    /\ convIn \in {<<Exchange(GET, UriA, <<>>, 200, headers, respBody)>> :
                      headers \in ResponseHeaderPool, respBody \in ResponseBodyPool}
    /\ convOut = <<>>
    /\ converted = FALSE

SpecResponse == InitResponse /\ [][MapExchange]_vars

-----------------------------------------------------------------------------
(* handleSnapshot as one handler: the request, the drain, the conversion   *)
(* and the answer.  A Go slice is nil or holds elements, and json.Marshal  *)
(* writes null for the one and an array for the other.                     *)

\* the bound on the length of the recorder a snapshot finds
MaxRecorded == 2

\* var mappings []types.Mapping
NilSlice == [isNil |-> TRUE, elems |-> <<>>]

\* make([]types.Mapping, 0), and a slice after an append
MakeSlice(elems) == [isNil |-> FALSE, elems |-> elems]

\* exchangesToScenarioMappings as a slice: mappings stays nil without an append
scenarioSlice(exchangeList, jsonContentTypes, preserveKeyOrder, sortArrayMembers, keys) ==
    IF exchangeList = <<>> THEN NilSlice
    ELSE MakeSlice(exchangesToScenarioMappings(exchangeList, jsonContentTypes,
                                               preserveKeyOrder, sortArrayMembers, keys))

\* exchangesToMappings as a slice: mappings is made with length 0
mappingsSlice(exchangeList, jsonContentTypes, preserveKeyOrder, sortArrayMembers, keys) ==
    MakeSlice(exchangesToMappings(exchangeList, jsonContentTypes, preserveKeyOrder,
                                  sortArrayMembers, keys))

\* handleSnapshot: mappings := make(.., 0); if m != nil { mappings = m }
MutNonNilKeepsNil(m) == m

nonNil(m) == IF m.isNil THEN MakeSlice(<<>>) ELSE m

\* json.Marshal of a slice
marshalSlice(s) == IF s.isNil THEN JNull ELSE JArr(s.elems)

\* json.Marshal of WiremockMappings: the field mappings has no omitempty
marshalWiremockMappings(Mappings) == ("mappings" :> marshalSlice(Mappings))

\* /ab?x=1
UriABx1 == <<"/", "a", "b", "?", "x", "=", "1">>

\* the exchanges the recorder holds: GET /a, GET /b, POST /ab?x=1
SnapExchangePool ==
    {Exchange(GET, UriA, <<>>, 200, <<>>, <<>>),
     Exchange(GET, UriB, <<>>, 200, <<>>, S1("1")),
     Exchange(POST, UriABx1, Json12, 200, JsonHeaders, Json21)}

\* the urlPattern filters: none; /a; /c; an open parenthesis; the lookahead
\* shape around /a, b, /.*x, / and a( ; and the shape less its first parenthesis
SnapFilterPool ==
    {<<>>, UriA, <<"/", "c">>, S1("("),
     <<"(", "(", "?", "!", "/", "a", ")", ".", ")", "*">>,
     <<"(", "(", "?", "!", "b", ")", ".", ")", "*">>,
     <<"(", "(", "?", "!", "/", ".", "*", "x", ")", ".", ")", "*">>,
     <<"(", "(", "?", "!", "/", ")", ".", ")", "*">>,
     <<"(", "(", "?", "!", "a", "(", ")", ".", ")", "*">>,
     <<"(", "?", "!", "b", ")", ".", ")", "*">>}

\* the recorder holds some exchanges and a snapshot request has arrived
InitSnapshotRequest ==
    /\ InitMatch
    /\ InitJson
    /\ InitConv
    /\ exchanges \in SeqsUpTo(SnapExchangePool, MaxRecorded)
    /\ mu = "free"
    /\ pc = [h \in Handlers |-> "idle"]
    /\ loc = [h \in Handlers |-> NoLocals]
    /\ appended = {}
    /\ exported = <<>>
    /\ cleared = {}
    /\ nextId = 1
    /\ snapReq \in {SnapshotRequest(p, s) : p \in SnapFilterPool, s \in BOOLEAN}
    /\ snapResp = NoSnapshot
    /\ snapBefore = <<>>
    /\ smu = Unlocked
    /\ spc = [h \in Handlers |-> "idle"]
    /\ sloc = [h \in Handlers |-> NoScan]
    /\ adminLog = <<>>
    /\ replies = <<>>

\* handleSnapshot: the conversion of filtered in the mode of the request
snapshotMappings(RepeatsAsScenarios, filtered, keys) ==
    IF RepeatsAsScenarios
    THEN nonNil(scenarioSlice(filtered, config.jsonContentTypes, config.preserveKeyOrder,
                              config.sortArrayMembers, keys))
    ELSE nonNil(mappingsSlice(filtered, config.jsonContentTypes, config.preserveKeyOrder,
                              config.sortArrayMembers, keys))

\* handleSnapshot, the only handler running
HandleSnapshot ==
    /\ ~snapResp.sent
    /\ snapBefore' = exchanges
    /\ convIn' = filteredOf(snapReq.URLPattern, exchanges)
    /\ exchanges' = remainingOf(snapReq.URLPattern, exchanges)
    /\ \E keys \in [DOMAIN convIn' -> Perms(RespHeaderNames)] :
          /\ convOut' = snapshotMappings(snapReq.RepeatsAsScenarios, convIn', keys).elems
          /\ snapResp' = [sent |-> TRUE, status |-> 200,
                          body |-> marshalWiremockMappings(
                                      snapshotMappings(snapReq.RepeatsAsScenarios,
                                                       convIn', keys))]
    /\ converted' = TRUE
    /\ UNCHANGED <<config, mu, pc, loc, appended, exported, cleared, nextId, matchVars,
                   jsonVars, snapReq, smu, spc, sloc, adminLog, replies>>

SpecSnapshotRequest == InitSnapshotRequest /\ [][HandleSnapshot]_vars

-----------------------------------------------------------------------------
(* The URL criterion on stubs with several of url, urlPath and urlPattern *)

\* /a?x=1 as the url of a stub, /b?x=1 as the URI of a request
UriBx1 == <<"/", "b", "?", "x", "=", "1">>

UrlPool == {<<>>, UriA, UriAx1}

UrlPathPool == {<<>>, UriA, UriB}

\* the patterns /a.*, x=1, ^/b and ( , which does not compile
UrlPatternPool ==
    {<<>>, <<"/", "a", ".", "*">>, <<"x", "=", "1">>, <<"^", "/", "b">>, S1("(")}

UrlStubs ==
    {Stub(S1("a"), GET, url, urlPath, urlPattern, <<>>, <<>>, <<>>) :
        url \in UrlPool, urlPath \in UrlPathPool, urlPattern \in UrlPatternPool}

UrlRequests ==
    {Request(GET, uri, <<>>, <<>>) : uri \in {UriA, UriAx1, UriB, UriBx1}}

\* the repository holds one stub, and a request has arrived
InitUrl ==
    /\ mappings \in {<<m>> : m \in UrlStubs}
    /\ req \in UrlRequests
    /\ res1 = NoResult
    /\ res2 = NoResult
    /\ evals = <<>>
    /\ scanned = 0
    /\ InitRec
    /\ InitJson
    /\ InitSrv
    /\ InitConv

SpecUrl == InitUrl /\ [][NextScan]_vars

-----------------------------------------------------------------------------
(* The replay server under concurrent requests: matchRequest holds the     *)
(* read lock of Server.mu over its loop, addMapping, loadMappings and      *)
(* clearMappings hold the write lock over their assignment.                 *)

\* the bound on the number of stubs in the repository under concurrency
MaxLocked == 2

LockStubPool == {StubExact, StubPathQ}

LockImportPool == {<<StubPathQ, StubExact>>}

LockRequests ==
    {Request(GET, UriA, <<>>, <<>>), Request(GET, UriAx21, <<>>, <<>>)}

\* sync.RWMutex.RLock returns once no handler holds the write lock
CanRLock(m) == m.writer = "none"

\* sync.RWMutex.Lock returns once no handler holds the lock at all
MutCanWLockBesideReaders(m) == m.writer = "none"

CanWLock(m) == m.writer = "none" /\ m.readers = {}

\* matchRequest: s.mu.RLock(), and the range loop reads len(s.mappings)
ScanRLock(h) ==
    /\ spc[h] = "idle"
    /\ CanRLock(smu)
    /\ smu' = [smu EXCEPT !.readers = @ \cup {h}]
    /\ \E rq \in LockRequests :
          sloc' = [sloc EXCEPT ![h] = [NoScan EXCEPT !.rq = rq, !.n = Len(mappings),
                                                       !.i = 1, !.seen = mappings]]
    /\ spc' = [spc EXCEPT ![h] = "scan"]
    /\ UNCHANGED <<matchVars, recVars, convVars, jsonVars, snapReq, snapResp, snapBefore,
                   adminLog, replies>>

\* matchRequest: one pass of the loop, on &s.mappings[i]
ScanStep(h) ==
    /\ spc[h] = "scan"
    /\ sloc[h].i <= sloc[h].n
    /\ IF sloc[h].i > Len(mappings)
       THEN /\ spc' = [spc EXCEPT ![h] = "panic"]
            /\ UNCHANGED sloc
       ELSE /\ \E qOrd \in Perms(QNames), hOrd \in Perms(HNames) :
                  sloc' = [sloc EXCEPT
                              ![h].st = scanStep(sloc[h].st, sloc[h].i,
                                                 evaluateMapping(mappings[sloc[h].i],
                                                                 sloc[h].rq.method,
                                                                 PathOf(sloc[h].rq.uri),
                                                                 sloc[h].rq.uri,
                                                                 QueryArgs(sloc[h].rq.uri),
                                                                 sloc[h].rq.body,
                                                                 sloc[h].rq.headers, qOrd, hOrd),
                                                 scoreOf(mappings[sloc[h].i],
                                                         evaluateMapping(mappings[sloc[h].i],
                                                                 sloc[h].rq.method,
                                                                 PathOf(sloc[h].rq.uri),
                                                                 sloc[h].rq.uri,
                                                                 QueryArgs(sloc[h].rq.uri),
                                                                 sloc[h].rq.body,
                                                                 sloc[h].rq.headers, qOrd, hOrd))),
                              ![h].i = @ + 1]
            /\ UNCHANGED spc
    /\ UNCHANGED <<matchVars, recVars, convVars, jsonVars, snapReq, snapResp, snapBefore,
                   smu, adminLog, replies>>

\* matchRequest: return bestMatch, and the deferred s.mu.RUnlock()
ScanReturn(h) ==
    /\ spc[h] = "scan"
    /\ sloc[h].i > sloc[h].n
    /\ smu' = [smu EXCEPT !.readers = @ \ {h}]
    /\ spc' = [spc EXCEPT ![h] = "reply"]
    /\ UNCHANGED <<matchVars, recVars, convVars, jsonVars, snapReq, snapResp, snapBefore,
                   sloc, adminLog, replies>>

\* handleRequest: the answer from the result of matchRequest
HandleReply(h) ==
    /\ spc[h] = "reply"
    /\ spc' = [spc EXCEPT ![h] = "idle"]
    /\ sloc' = [sloc EXCEPT ![h] = NoScan]
    /\ UNCHANGED <<matchVars, recVars, convVars, jsonVars, snapReq, snapResp, snapBefore,
                   smu, adminLog, replies>>

\* addMapping, loadMappings, clearMappings: s.mu.Lock()
LockMappings(h) ==
    /\ spc[h] = "idle"
    /\ CanWLock(smu)
    /\ smu' = [smu EXCEPT !.writer = h]
    /\ \/ \E m \in LockStubPool :
             /\ Len(mappings) < MaxLocked
             /\ sloc' = [sloc EXCEPT ![h] = [NoScan EXCEPT !.op = "add", !.stubs = <<m>>]]
       \/ \E wm \in LockImportPool :
             /\ Len(mappings) + Len(wm) <= MaxLocked
             /\ sloc' = [sloc EXCEPT ![h] = [NoScan EXCEPT !.op = "import", !.stubs = wm]]
       \/ /\ mappings # <<>>
          /\ sloc' = [sloc EXCEPT ![h] = [NoScan EXCEPT !.op = "clear"]]
    /\ spc' = [spc EXCEPT ![h] = "write"]
    /\ UNCHANGED <<matchVars, recVars, convVars, jsonVars, snapReq, snapResp, snapBefore,
                   adminLog, replies>>

\* addMapping, loadMappings, clearMappings: the assignment to s.mappings,
\* and s.mu.Unlock()
WriteMappings(h) ==
    /\ spc[h] = "write"
    /\ mappings' = IF sloc[h].op = "clear" THEN <<>> ELSE mappings \o sloc[h].stubs
    /\ smu' = [smu EXCEPT !.writer = "none"]
    /\ spc' = [spc EXCEPT ![h] = "idle"]
    /\ sloc' = [sloc EXCEPT ![h] = NoScan]
    /\ UNCHANGED <<req, res1, res2, evals, scanned, recVars, convVars, jsonVars, snapReq,
                   snapResp, snapBefore, adminLog, replies>>

NextLocked ==
    \E h \in Handlers :
        \/ ScanRLock(h)
        \/ ScanStep(h)
        \/ ScanReturn(h)
        \/ HandleReply(h)
        \/ LockMappings(h)
        \/ WriteMappings(h)

SpecLocked == Init /\ [][NextLocked]_vars

-----------------------------------------------------------------------------
(* The admin requests on the stubs: handleMappings and handleAdmin read    *)
(* the body with json.Unmarshal and call addMapping, loadMappings or       *)
(* clearMappings.                                                          *)

\* the bound on the number of admin requests
MaxOps == 3

\* the zero Mapping
ZeroMapping ==
    [Stub(<<>>, <<>>, <<>>, <<>>, <<>>, <<>>, <<>>, <<>>) EXCEPT !.Response = NoResponse]

\* the member key of the JSON object v, null when it has none
member(v, key) == IF key \in DOMAIN v.m THEN v.m[key] ELSE JNull

\* json.Unmarshal into a string field: null leaves it, a string sets it,
\* any other value is an UnmarshalTypeError
decodeString(v) ==
    IF v.k = "str" THEN [ok |-> TRUE, s |-> v.s] ELSE [ok |-> v.k = "null", s |-> <<>>]

\* json.Unmarshal into Mapping.Request: the fields url and method
decodeRequest(v) ==
    IF v.k = "null" THEN [ok |-> TRUE, r |-> ZeroMapping.Request]
    ELSE IF v.k # "obj" THEN [ok |-> FALSE, r |-> ZeroMapping.Request]
    ELSE [ok |-> decodeString(member(v, <<"u", "r", "l">>)).ok
                 /\ decodeString(member(v, <<"m", "e", "t", "h", "o", "d">>)).ok,
          r |-> [ZeroMapping.Request EXCEPT
                    !.URL = decodeString(member(v, <<"u", "r", "l">>)).s,
                    !.Method = decodeString(member(v, <<"m", "e", "t", "h", "o", "d">>)).s]]

\* json.Unmarshal into a Mapping: the fields name and request
decodeMapping(v) ==
    IF v.k = "null" THEN [ok |-> TRUE, m |-> ZeroMapping]
    ELSE IF v.k # "obj" THEN [ok |-> FALSE, m |-> ZeroMapping]
    ELSE [ok |-> decodeString(member(v, <<"n", "a", "m", "e">>)).ok
                 /\ decodeRequest(member(v, <<"r", "e", "q", "u", "e", "s", "t">>)).ok,
          m |-> [ZeroMapping EXCEPT
                    !.Name = decodeString(member(v, <<"n", "a", "m", "e">>)).s,
                    !.Request = decodeRequest(member(v, <<"r", "e", "q", "u", "e", "s", "t">>)).r]]

\* json.Unmarshal into WiremockMappings.Mappings
decodeMappings(v) ==
    IF v.k = "null" THEN [ok |-> TRUE, ms |-> <<>>]
    ELSE IF v.k # "arr" THEN [ok |-> FALSE, ms |-> <<>>]
    ELSE [ok |-> \A i \in DOMAIN v.e : decodeMapping(v.e[i]).ok,
          ms |-> [i \in DOMAIN v.e |-> decodeMapping(v.e[i]).m]]

\* handleMappings: json.Unmarshal(ctx.PostBody(), &m); ok is err == nil
unmarshalMapping(parsed) ==
    IF ~parsed.ok THEN [ok |-> FALSE, ms |-> <<>>]
    ELSE [ok |-> decodeMapping(parsed.v).ok, ms |-> <<decodeMapping(parsed.v).m>>]

\* handleAdmin: json.Unmarshal(ctx.PostBody(), &wm); ok is err == nil
unmarshalWiremockMappings(parsed) ==
    IF ~parsed.ok THEN [ok |-> FALSE, ms |-> <<>>]
    ELSE IF parsed.v.k = "null" THEN [ok |-> TRUE, ms |-> <<>>]
    ELSE IF parsed.v.k # "obj" THEN [ok |-> FALSE, ms |-> <<>>]
    ELSE decodeMappings(member(parsed.v, <<"m", "a", "p", "p", "i", "n", "g", "s">>))

\* addMapping and loadMappings: append, unless the handler has returned
\* at the error of json.Unmarshal
MutAppendedDespiteError(maps, decoded) == maps \o decoded.ms

appendDecoded(maps, decoded) == IF decoded.ok THEN maps \o decoded.ms ELSE maps

\* {"request":{"url":"/a"}}
AddUrlA ==
    <<"{", "\"", "r", "e", "q", "u", "e", "s", "t", "\"", ":", "{", "\"",
      "u", "r", "l", "\"", ":", "\"", "/", "a", "\"", "}", "}">>

\* {"name":"b"}
AddNameB ==
    <<"{", "\"", "n", "a", "m", "e", "\"", ":", "\"", "b", "\"", "}">>

\* {}
AddEmpty ==
    <<"{", "}">>

\* {"name":5}
AddBadType ==
    <<"{", "\"", "n", "a", "m", "e", "\"", ":", "5", "}">>

\* {"name"
AddCut ==
    <<"{", "\"", "n", "a", "m", "e", "\"">>

\* {"mappings":[{"name":"a"},{"name":"b"}]}
ImportAB ==
    <<"{", "\"", "m", "a", "p", "p", "i", "n", "g", "s", "\"", ":", "[", "{",
      "\"", "n", "a", "m", "e", "\"", ":", "\"", "a", "\"", "}", ",", "{",
      "\"", "n", "a", "m", "e", "\"", ":", "\"", "b", "\"", "}", "]", "}">>

\* {"mappings":[]}
ImportNone ==
    <<"{", "\"", "m", "a", "p", "p", "i", "n", "g", "s", "\"", ":", "[", "]",
      "}">>

\* {"mappings":[{"name":"a"},5]}
ImportBadSecond ==
    <<"{", "\"", "m", "a", "p", "p", "i", "n", "g", "s", "\"", ":", "[", "{",
      "\"", "n", "a", "m", "e", "\"", ":", "\"", "a", "\"", "}", ",", "5",
      "]", "}">>

\* {"mappings":[
ImportCut ==
    <<"{", "\"", "m", "a", "p", "p", "i", "n", "g", "s", "\"", ":", "[">>

AddBodies == {AddUrlA, AddNameB, AddEmpty, AddBadType, AddCut}

ImportBodies == {ImportAB, ImportNone, ImportBadSecond, ImportCut}

\* an entry of the history of admin requests
AdminEntry(op, body, status) == [op |-> op, body |-> body, status |-> status]

\* handleMappings, POST /__admin/mappings
HandleAddMapping ==
    /\ Len(adminLog) < MaxOps
    /\ \E body \in AddBodies :
          /\ mappings' = appendDecoded(mappings, unmarshalMapping(Unmarshal(body)))
          /\ adminLog' = Append(adminLog,
                                AdminEntry("add", body,
                                           IF unmarshalMapping(Unmarshal(body)).ok
                                           THEN 201 ELSE 400))
    /\ UNCHANGED <<req, res1, res2, evals, scanned, recVars, convVars, jsonVars, snapReq,
                   snapResp, snapBefore, smu, spc, sloc, replies>>

\* handleAdmin, POST /__admin/mappings/import
HandleImport ==
    /\ Len(adminLog) < MaxOps
    /\ \E body \in ImportBodies :
          /\ mappings' = appendDecoded(mappings, unmarshalWiremockMappings(Unmarshal(body)))
          /\ adminLog' = Append(adminLog,
                                AdminEntry("import", body,
                                           IF unmarshalWiremockMappings(Unmarshal(body)).ok
                                           THEN 200 ELSE 400))
    /\ UNCHANGED <<req, res1, res2, evals, scanned, recVars, convVars, jsonVars, snapReq,
                   snapResp, snapBefore, smu, spc, sloc, replies>>

\* DELETE /__admin/mappings, POST /__admin/reset, POST /__admin/mappings/reset
HandleClear ==
    /\ Len(adminLog) < MaxOps
    /\ mappings' = <<>>
    /\ adminLog' = Append(adminLog, AdminEntry("clear", <<>>, 200))
    /\ UNCHANGED <<req, res1, res2, evals, scanned, recVars, convVars, jsonVars, snapReq,
                   snapResp, snapBefore, smu, spc, sloc, replies>>

NextAdmin == HandleAddMapping \/ HandleImport \/ HandleClear

SpecAdmin == Init /\ [][NextAdmin]_vars

-----------------------------------------------------------------------------
(* proxyAndRecord with its answer to the client: the forward, the append   *)
(* under rs.mu, and the response.                                          *)

\* the exchanges of the upstream: 200 with a Date header, and a 502 of its own
ProxyExchangePool ==
    {Exchange(GET, UriA, <<>>, 200, DatedHeaders, S1("1")),
     Exchange(GET, UriB, <<>>, 502, <<>>, <<>>)}

\* proxyAndRecord: whether the response loop skips the header
skippedHeader(upperKey) ==
    \/ OccursAt(upperKey, <<"X", "-", "G", "D", "C">>, 1)
    \/ upperKey \in {<<"D", "A", "T", "E">>,
                     <<"C", "O", "N", "T", "E", "N", "T", "-", "E", "N", "C", "O", "D", "I", "N", "G">>,
                     <<"C", "O", "N", "T", "E", "N", "T", "-", "L", "E", "N", "G", "T", "H">>}

\* proxyAndRecord: the headers of the response to the client
responseHeaders(respHeaders) ==
    [key \in {k \in DOMAIN respHeaders : ~skippedHeader(ToUpper(k))} |-> respHeaders[key]]

\* the answer to the proxied request id; err tells that the forward failed
Reply(id, err, status, headers, body) ==
    [id |-> id, err |-> err, status |-> status, headers |-> headers, body |-> body]

\* proxyAndRecord: where the handler goes after proxy.ProxyRequest
MutForwardPcRecordsAnyway(err) == "lock"

forwardPc(err) == IF err THEN "idle" ELSE "lock"

\* proxyAndRecord: proxy.ProxyRequest, and the 502 when it returns an error
ProxyForward(h) ==
    /\ pc[h] = "idle"
    /\ nextId <= MaxExchanges
    /\ \E ex \in ProxyExchangePool, err \in BOOLEAN :
          /\ pc' = [pc EXCEPT ![h] = forwardPc(err)]
          /\ loc' = IF forwardPc(err) = "lock"
                    THEN [loc EXCEPT ![h].exchange = [ex EXCEPT !.id = nextId]]
                    ELSE loc
          /\ replies' = IF err THEN Append(replies, Reply(nextId, TRUE, 502, <<>>, <<>>))
                        ELSE replies
    /\ nextId' = nextId + 1
    /\ UNCHANGED <<exchanges, mu, appended, exported, cleared, matchVars, convVars,
                   jsonVars, snapReq, snapResp, snapBefore, smu, spc, sloc, adminLog>>

\* proxyAndRecord: rs.mu.Lock()
ProxyLock(h) ==
    /\ pc[h] = "lock"
    /\ CanLock(mu)
    /\ mu' = h
    /\ pc' = [pc EXCEPT ![h] = "record"]
    /\ UNCHANGED <<exchanges, loc, appended, exported, cleared, nextId, matchVars, convVars,
                   jsonVars, srvVars>>

\* proxyAndRecord: the append, and rs.mu.Unlock()
ProxyAppend(h) ==
    /\ pc[h] = "record"
    /\ exchanges' = Append(exchanges, loc[h].exchange)
    /\ appended' = appended \cup {loc[h].exchange.id}
    /\ mu' = "free"
    /\ pc' = [pc EXCEPT ![h] = "respond"]
    /\ UNCHANGED <<loc, exported, cleared, nextId, matchVars, convVars, jsonVars, srvVars>>

\* proxyAndRecord: the response of the upstream is sent to the client
ProxyRespond(h) ==
    /\ pc[h] = "respond"
    /\ replies' = Append(replies,
                         Reply(loc[h].exchange.id, FALSE, loc[h].exchange.Status,
                               responseHeaders(loc[h].exchange.RespHeaders),
                               loc[h].exchange.RespBody))
    /\ pc' = [pc EXCEPT ![h] = "idle"]
    /\ loc' = [loc EXCEPT ![h] = NoLocals]
    /\ UNCHANGED <<exchanges, mu, appended, exported, cleared, nextId, matchVars, convVars,
                   jsonVars, snapReq, snapResp, snapBefore, smu, spc, sloc, adminLog>>

NextProxy ==
    \E h \in Handlers :
        \/ ProxyForward(h)
        \/ ProxyLock(h)
        \/ ProxyAppend(h)
        \/ ProxyRespond(h)
        \/ ClearLock(h)
        \/ ClearExchanges(h)

SpecProxy == Init /\ [][NextProxy]_vars

-----------------------------------------------------------------------------
(* Record, then replay: the stub of a recorded exchange is loaded into the *)
(* replay server, and the recorded request arrives again.                  *)

\* /a?
UriAq == <<"/", "a", "?">>

\* /a?x=%31&x=2
UriAxx == <<"/", "a", "?", "x", "=", "%", "3", "1", "&", "x", "=", "2">>

\* /a?c
UriAc == <<"/", "a", "?", "c">>

ReplayUris == {UriA, UriAq, UriAx1, UriAxx, UriAc}

\* no body, objects in two key orders, arrays in two orders, a nested array
\* out of order, and a body that is not JSON
ReplayBodies == {<<>>, JsonAB, JsonBAws, Json12, Json21, JsonNested, JsonCut}

\* one recorded exchange
InitReplay ==
    /\ InitMatch
    /\ InitRec
    /\ InitJson
    /\ InitSrv
    /\ config \in {Config(p, a) : p, a \in BOOLEAN}
    /\ convIn \in {<<Exchange(method, uri, reqBody, 200, JsonHeaders, S1("1"))>> :
                      method \in {GET, POST}, uri \in ReplayUris, reqBody \in ReplayBodies}
    /\ convOut = <<>>
    /\ converted = FALSE

\* the replay server holds the recorded stub, and handleRequest calls
\* matchRequest for the request of the recorded exchange
ReplayRecorded ==
    /\ converted
    /\ scanned = 0
    /\ mappings' = convOut
    /\ req' = Request(convIn[1].Method, convIn[1].URL, convIn[1].ReqBody, <<>>)
    /\ \E qOrd \in Perms(QNames), hOrd \in Perms(HNames) :
          /\ evals' = evaluateAll(convOut, req', qOrd, hOrd)
          /\ res1' = matchRequest(convOut, evals')
    /\ scanned' = 1
    /\ UNCHANGED <<res2, recVars, convVars, jsonVars, srvVars>>

NextReplay == MapExchange \/ ReplayRecorded

SpecReplay == InitReplay /\ [][NextReplay]_vars

-----------------------------------------------------------------------------
(* Scenario chains of several groups *)

\* the bound on the number of exchanges of a snapshot with chains
MaxChain == 4

\* /a?x=2
UriAx2 == <<"/", "a", "?", "x", "=", "2">>

\* one path with two query strings and two methods, and a second path
ChainExchangePool ==
    {Exchange(GET, UriAx1, <<>>, 200, JsonHeaders, S1("1")),
     Exchange(GET, UriAx2, <<>>, 200, JsonHeaders, S1("2")),
     Exchange(POST, UriAx1, <<>>, 200, JsonHeaders, S1("3")),
     Exchange(GET, UriB, <<>>, 200, JsonHeaders, S1("4"))}

InitChains ==
    /\ InitMatch
    /\ InitRec
    /\ InitJson
    /\ InitSrv
    /\ config = Config(FALSE, FALSE)
    /\ convIn \in SeqsUpTo(ChainExchangePool, MaxChain)
    /\ convOut = <<>>
    /\ converted = FALSE

SpecChains == InitChains /\ [][ConvertScenarios]_vars

-----------------------------------------------------------------------------
(* Claims on the Snapshot Converter *)

\* the conversion of the input exchange i
C10_Conv(i) ==
    exchangeToMapping(convIn[i], config.jsonContentTypes, config.preserveKeyOrder,
                      config.sortArrayMembers, SortedSeq(RespHeaderNames))

\* the deduplication key of a stub, field by field
C10_Key(m) ==
    <<m.Request.Method,
      IF m.Request.URL # <<>> THEN m.Request.URL ELSE m.Request.URLPath,
      m.Request.QueryParameters,
      m.Request.BodyPatterns>>

\* C10: without scenarios the output of exchangesToMappings holds exactly one
\* stub for each deduplication key that occurs among the input exchanges,
\* and that stub is the conversion of the last input exchange of that key.
C10_OneStubPerKeyTheLast ==
    converted =>
        /\ \A i \in DOMAIN convIn :
              Cardinality({j \in DOMAIN convOut :
                              C10_Key(convOut[j]) = C10_Key(C10_Conv(i))}) = 1
        /\ \A j \in DOMAIN convOut :
              \E i \in DOMAIN convIn :
                  /\ convOut[j] = C10_Conv(i)
                  /\ \A k \in DOMAIN convIn :
                        C10_Key(C10_Conv(k)) = C10_Key(convOut[j]) => k <= i

\* three exchanges, the first and the last of one key and with different
\* responses, are converted to two stubs
C10_Witness ==
    /\ converted
    /\ Len(convIn) = 3
    /\ Len(convOut) = 2
    /\ C10_Key(C10_Conv(1)) = C10_Key(C10_Conv(3))
    /\ C10_Conv(1).Response # C10_Conv(3).Response
    /\ convIn[1].URL # convIn[3].URL

\* the positions in the input of the exchanges with the method and raw URI of
\* the exchange at position i
C11_Group(i) == groupExchanges(convIn, groupKey(convIn[i]), 1)

\* the stub the claim expects for the k-th exchange of the group g
C11_Stub(g, k) ==
    IF Len(g) = 1 THEN C10_Conv(g[1])
    ELSE [C10_Conv(g[k]) EXCEPT
            !.ScenarioName = generateMappingName(convIn[g[1]].URL),
            !.RequiredScenarioState = IF k = 1 THEN <<"S", "t", "a", "r", "t", "e", "d">>
                                      ELSE <<"s", "t", "a", "t", "e", "_">> \o IntToStr(k - 1),
            !.NewScenarioState = IF k < Len(g) THEN <<"s", "t", "a", "t", "e", "_">> \o IntToStr(k)
                                 ELSE <<>>]

\* the stubs of the group g stand in the output in the order of the chain
C11_InOutputOrder(g) ==
    \E pos \in [DOMAIN g -> DOMAIN convOut] :
        /\ \A k \in DOMAIN g : convOut[pos[k]] = C11_Stub(g, k)
        /\ \A k, l \in DOMAIN g : k < l => pos[k] < pos[l]

\* C11: with scenarios the output has as many stubs as the input has
\* exchanges; the N > 1 exchanges of one method and raw URI yield N stubs of
\* one scenario name that require, in output order, Started, state_1, ...,
\* state_(N-1) and set state_1, ..., state_(N-1), nothing; an exchange whose
\* method and URI occur once yields a stub without scenario fields.
C11_ChainInOutputOrder ==
    converted =>
        /\ Len(convOut) = Len(convIn)
        /\ \A i \in DOMAIN convIn : C11_InOutputOrder(C11_Group(i))

\* the stub a does not stand behind the stub b in the order of the output
C12_NotBehind(a, b) ==
    \/ StrLess(a.Name, b.Name)
    \/ a.Name = b.Name /\ StrLeq(deduplicationKey(a), deduplicationKey(b))

\* C12: in both modes the stubs a snapshot returns are ordered
\* non-decreasingly by name, and stubs of equal names non-decreasingly by
\* their deduplication key, whatever the arrival order of the exchanges.
C12_OutputSorted ==
    converted =>
        \A i, j \in DOMAIN convOut : i < j => C12_NotBehind(convOut[i], convOut[j])

\* exchanges that arrived in the reverse of the order of their stubs
C12_Witness ==
    /\ converted
    /\ Len(convIn) = 3
    /\ Len(convOut) = 3
    /\ convIn[1].URL = UriB
    /\ convIn[2].URL = UriA /\ convIn[2].Method = POST
    /\ convIn[3].URL = UriA /\ convIn[3].Method = GET
    /\ convOut[1].Request.Method = GET /\ convOut[1].Request.URL = UriA
    /\ convOut[2].Request.Method = POST
    /\ convOut[3].Request.URL = UriB

\* the parts of the query string of the recorded URI
C13_Parts == Split(QueryStringOf(convIn[1].URL), "&")

\* the decoded name and the decoded value of a part
C13_Name(part) ==
    urlDecode(IF IndexByte(part, "=") = 0 THEN part
              ELSE Slice(part, 1, IndexByte(part, "=") - 1))

C13_Value(part) ==
    IF IndexByte(part, "=") = 0 THEN <<>>
    ELSE urlDecode(Slice(part, IndexByte(part, "=") + 1, Len(part)))

\* the decoded values of the parameter name, in the order of the URI
RECURSIVE C13_Values(_, _)
C13_Values(parts, name) ==
    IF parts = <<>> THEN <<>>
    ELSE (IF C13_Name(Head(parts)) = name THEN <<C13_Value(Head(parts))>> ELSE <<>>)
         \o C13_Values(Tail(parts), name)

\* the stub matches the path and has one hasExactly matcher per name
C13_PathAndQuery(r) ==
    /\ r.URL = <<>>
    /\ r.URLPath = PathOf(convIn[1].URL)
    /\ r.URLPath # <<>>
    /\ DOMAIN r.QueryParameters = {C13_Name(C13_Parts[i]) : i \in DOMAIN C13_Parts}
    /\ \A name \in DOMAIN r.QueryParameters :
          /\ r.QueryParameters[name].EqualTo = <<>>
          /\ r.QueryParameters[name].HasExactly = C13_Values(C13_Parts, name)

\* the stub matches the full URI of the exchange and has no query matcher
C13_FullURL(r) ==
    /\ r.URL = convIn[1].URL
    /\ r.URLPath = <<>>
    /\ r.QueryParameters = <<>>

\* C13: the stub of a recorded exchange has exactly one URL-matching mode and
\* never a urlPattern: with a query string in the raw URI, urlPath is the
\* path and there is one hasExactly matcher per distinct parameter name with
\* all decoded values of that parameter; without one, url is the URI of the
\* exchange and there is no query matcher.
C13_OneURLMode ==
    converted =>
        /\ convOut[1].Request.URLPattern = <<>>
        /\ IF QueryStringOf(convIn[1].URL) # <<>>
           THEN C13_PathAndQuery(convOut[1].Request)
           ELSE C13_FullURL(convOut[1].Request)

\* the stubs of the group g are in the output, and two of them whose
\* deduplication keys do not descend stand in the order of the chain
C11_Placed(stubs, keys) ==
    \E pos \in [DOMAIN stubs -> DOMAIN convOut] :
        /\ \A k \in DOMAIN stubs : convOut[pos[k]] = stubs[k]
        /\ \A k, l \in DOMAIN stubs :
              k < l => /\ pos[k] # pos[l]
                       /\ StrLeq(keys[k], keys[l]) => pos[k] < pos[l]

C11_StubsOf(g) == [k \in DOMAIN g |-> C11_Stub(g, k)]

C11_KeysOf(stubs) == [k \in DOMAIN stubs |-> deduplicationKey(stubs[k])]

C11_PlacedStubs(stubs) == C11_Placed(stubs, C11_KeysOf(stubs))

C11_InSortedOutput(g) == C11_PlacedStubs(C11_StubsOf(g))

\* C11, amended: with scenarios the output has as many stubs as the input
\* has exchanges; the N > 1 exchanges of one method and raw URI yield N
\* stubs of one scenario name that require, in the order of arrival,
\* Started, state_1, ..., state_(N-1) and set state_1, ..., state_(N-1),
\* nothing; an exchange whose method and URI occur once yields a stub
\* without scenario fields; in the output the stubs stand sorted, so the
\* stubs of a chain follow the order of the chain where their deduplication
\* keys do not descend.
C11_ChainInArrivalOrder ==
    converted =>
        /\ Len(convOut) = Len(convIn)
        /\ \A i \in DOMAIN convIn :
              C11_Group(i)[1] = i => C11_InSortedOutput(C11_Group(i))

\* two exchanges of POST /a whose bodies arrive in descending order of their
\* keys: the stub that requires state_1 stands before the one that requires
\* Started
C11_Witness ==
    /\ converted
    /\ Len(convIn) = 2
    /\ groupKey(convIn[1]) = groupKey(convIn[2])
    /\ Len(convOut) = 2
    /\ convOut[1].RequiredScenarioState = stateName(1)
    /\ convOut[1].NewScenarioState = <<>>
    /\ convOut[2].RequiredScenarioState = <<"S", "t", "a", "r", "t", "e", "d">>
    /\ convOut[2].NewScenarioState = stateName(1)

-----------------------------------------------------------------------------
(* Claims on SortArrays *)

\* C14: SortArrays is idempotent: SortArrays(SortArrays(v)) equals
\* SortArrays(v) for every JSON value v.
C14_Idempotent ==
    Len(sortRet) >= 2 => Marshal(sortRet[2]) = Marshal(sortRet[1])

\* the second call on a value with arrays at two depths that the first call
\* reordered
C14_Witness ==
    /\ Len(sortRet) = 2
    /\ sortArg0.k = "arr"
    /\ \E i \in DOMAIN sortArg0.e : sortArg0.e[i].k = "arr" /\ Len(sortArg0.e[i].e) = 2
    /\ Marshal(sortRet[1]) # Marshal(sortArg0)

\* the bijections between the positions of two arrays of one length
C15_Bijections(n) == {p \in [1..n -> 1..n] : \A i, j \in 1..n : p[i] = p[j] => i = j}

\* w is v with every array, at every depth, holding the normalized elements
\* of the array of v in non-decreasing order of their JSON text
RECURSIVE C15_Normalizes(_, _)
C15_Normalizes(v, w) ==
    /\ v.k = w.k
    /\ CASE v.k = "obj" ->
              /\ DOMAIN w.m = DOMAIN v.m
              /\ \A key \in DOMAIN v.m : C15_Normalizes(v.m[key], w.m[key])
         [] v.k = "arr" ->
              /\ Len(w.e) = Len(v.e)
              /\ \E p \in C15_Bijections(Len(v.e)) :
                    \A i \in DOMAIN v.e : C15_Normalizes(v.e[i], w.e[p[i]])
              /\ \A i, j \in DOMAIN w.e : i < j => StrLeq(Marshal(w.e[i]), Marshal(w.e[j]))
         [] OTHER -> Marshal(w) = Marshal(v)

\* the values that differ from v at most by the order of the elements of
\* their arrays, at every depth
RECURSIVE C15_Rearranged(_)
C15_Rearranged(v) ==
    CASE v.k = "obj" ->
            {JObj(m) : m \in {f \in [DOMAIN v.m -> UNION {C15_Rearranged(v.m[key]) :
                                                            key \in DOMAIN v.m}] :
                                \A key \in DOMAIN v.m : f[key] \in C15_Rearranged(v.m[key])}}
      [] v.k = "arr" ->
            {JArr([i \in DOMAIN v.e |-> g[p[i]]]) :
                p \in C15_Bijections(Len(v.e)),
                g \in {f \in [DOMAIN v.e -> UNION {C15_Rearranged(v.e[i]) :
                                                    i \in DOMAIN v.e}] :
                          \A i \in DOMAIN v.e : f[i] \in C15_Rearranged(v.e[i])}}
      [] OTHER -> {v}

\* C15: SortArrays(v) has the shape of v, scalars and key sets unchanged, and
\* every array of the result, at every depth, holds the normalized elements
\* of the array of v ordered non-decreasingly by their canonical JSON text;
\* two inputs that differ only by the order of array elements normalize to
\* the same value.
C15_SortedAtEveryDepth ==
    Len(sortRet) = 1 =>
        /\ C15_Normalizes(sortArg0, sortRet[1])
        /\ \A u \in C15_Rearranged(sortArg0) :
              Marshal(SortArrays(u)) = Marshal(sortRet[1])

\* [[10, 2], ["a", 10]] is returned as [["a", 10], [10, 2]]
C15_Witness ==
    /\ Len(sortRet) = 1
    /\ Marshal(sortArg0) = <<"[", "[", "2", ",", "1", "0", "]", ",", "[", "1", "0", ",", "\"", "a", "\"", "]", "]">>
    /\ Marshal(sortRet[1]) = <<"[", "[", "\"", "a", "\"", ",", "1", "0", "]", ",", "[", "1", "0", ",", "2", "]", "]">>

\* C16: SortArrays is pure: after the call the value the caller passed is as
\* it was before the call, every array in its order and every object with
\* its members.
C16_ArgumentUnchanged ==
    Len(sortRet) >= 1 => Marshal(sortArg) = Marshal(sortArg0)

\* C16, amended: SortArrays normalizes in place; after the call the value
\* the caller passed is the normalized value that was returned.
C16_ArgumentNormalized ==
    Len(sortRet) >= 1 => Marshal(sortArg) = Marshal(sortRet[Len(sortRet)])

\* after one call the caller's array is in another order than before
C16_Witness ==
    /\ Len(sortRet) = 1
    /\ sortArg0.k = "arr"
    /\ Marshal(sortArg) # Marshal(sortArg0)

-----------------------------------------------------------------------------
(* Claims on the Content Classifier *)

\* the media type of a header value: the part before ';', trimmed, in lower
\* case
C17_MediaType(v) ==
    ToLower(TrimSpace(IF IndexByte(v, ";") = 0 THEN v
                      ELSE Slice(v, 1, IndexByte(v, ";") - 1)))

\* the media types of the Content-Type values of the response
C17_MediaTypes ==
    UNION {{C17_MediaType(convIn[1].RespHeaders[name][i]) :
               i \in DOMAIN convIn[1].RespHeaders[name]} :
           name \in {n \in DOMAIN convIn[1].RespHeaders : ToLower(n) = <<"c", "o", "n", "t", "e", "n", "t", "-", "t", "y", "p", "e">>}}

\* the media types the environment configures, in lower case
C17_Configured ==
    {ToLower(TrimSpace(Split(jsonEnv, ",")[i])) : i \in DOMAIN Split(jsonEnv, ",")} \ {<<>>}

\* C17: a response is classified as JSON if one of its Content-Type values
\* has the media type application/json, whatever list is configured, the
\* empty one included, and for any other media type exactly if that type is
\* in the configured list; parameters after ';' are stripped, whitespace is
\* trimmed, and the header name and the type are compared without case.
C17_ClassifiedAsJSON ==
    classified # "none" =>
        (classified = "json"
            <=> \E t \in C17_MediaTypes : t = ApplicationJSON \/ t \in C17_Configured)

\* nothing configured, the header written content-type, and its second value
\* Application/JSON; charset=utf-8
C17_Witness ==
    /\ classified = "json"
    /\ jsonEnv = <<>>
    /\ DOMAIN convIn[1].RespHeaders = {<<"c", "o", "n", "t", "e", "n", "t", "-", "t", "y", "p", "e">>}
    /\ convIn[1].RespHeaders[<<"c", "o", "n", "t", "e", "n", "t", "-", "t", "y", "p", "e">>] = <<<<"t", "e", "x", "t", "/", "h", "t", "m", "l">>, <<"A", "p", "p", "l", "i", "c", "a", "t", "i", "o", "n", "/", "J", "S", "O", "N", ";", " ", "c", "h", "a", "r", "s", "e", "t", "=", "u", "t", "f", "-", "8">>>>

-----------------------------------------------------------------------------
(* Claims on the bodies of the generated stubs *)

\* the index of the quote that closes the string literal opened at i - 1
RECURSIVE C18_StringEnd(_, _)
C18_StringEnd(text, i) ==
    IF i > Len(text) THEN i
    ELSE IF text[i] = "\\" THEN C18_StringEnd(text, i + 2)
    ELSE IF text[i] = "\"" THEN i
    ELSE C18_StringEnd(text, i + 1)

\* the object keys of a JSON text from index i on, in the order in which
\* they are written, at every depth: the string literals followed by ':'
RECURSIVE C18_Keys(_, _)
C18_Keys(text, i) ==
    IF i > Len(text) THEN <<>>
    ELSE IF text[i] = "\""
         THEN (IF SkipWs(text, C18_StringEnd(text, i + 1) + 1) <= Len(text)
                  /\ text[SkipWs(text, C18_StringEnd(text, i + 1) + 1)] = ":"
               THEN <<Slice(text, i + 1, C18_StringEnd(text, i + 1) - 1)>>
               ELSE <<>>)
              \o C18_Keys(text, C18_StringEnd(text, i + 1) + 1)
    ELSE C18_Keys(text, i + 1)

\* the JSON text of the equalToJson of the generated stub
C18_EqualToJson == Unmarshal(convOut[1].Request.BodyPatterns[1].EqualToJSON).v.s

\* the JSON text of the jsonBody of the generated stub
C18_JsonBody == convOut[1].Response.JsonBody

\* the keys of the objects of a JSON text are in alphabetical order at every
\* depth
C18_Alphabetical(text) == CompactText(text, FALSE) = Marshal(Unmarshal(text).v)

\* C18: with preserveKeyOrder the object keys of the stub's equalToJson and
\* jsonBody are in the order of the recorded request and response bodies,
\* for either setting of sortArrayMembers; without it they are in
\* alphabetical order at every depth.
C18_KeyOrderKept ==
    converted =>
        IF config.preserveKeyOrder
        THEN /\ C18_Keys(C18_EqualToJson, 1) = C18_Keys(convIn[1].ReqBody, 1)
             /\ C18_Keys(C18_JsonBody, 1) = C18_Keys(convIn[1].RespBody, 1)
        ELSE /\ C18_Alphabetical(C18_EqualToJson)
             /\ C18_Alphabetical(C18_JsonBody)

-----------------------------------------------------------------------------
(* Claims on the record server *)

\* the request of a recorded exchange
C19_Request(ex) == Request(ex.Method, ex.URL, ex.ReqBody, <<>>)

\* some stub of the repository fully matches the request
C19_Matched(rq) == matchOf(mappings, rq, SortedSeq(QNames), SortedSeq(HNames)).Matched

\* C19: in record mode a request that fully matches a stub added before via
\* /__admin/mappings is answered from the stub: it is not forwarded to the
\* upstream and no exchange is recorded for it.
C19_StubsBeforeProxy ==
    [][\A h \in Handlers :
          (pc[h] = "idle" /\ pc'[h] = "append") =>
              ~C19_Matched(C19_Request(loc'[h].exchange))]_vars

\* the response of the recorded exchange is classified as JSON
C20_Classified == isJSONContentType(convIn[1].RespHeaders, config.jsonContentTypes)

\* C20: the stub of an exchange whose response Content-Type is classified as
\* JSON always has the response body as structured JSON in jsonBody and an
\* empty body; the stub of any other exchange has the raw string in body and
\* no jsonBody; no stub has both.
C20_JsonBodyOrBody ==
    converted =>
        /\ C20_Classified =>
              convOut[1].Response.hasJsonBody /\ convOut[1].Response.Body = <<>>
        /\ ~C20_Classified =>
              /\ ~convOut[1].Response.hasJsonBody
              /\ convOut[1].Response.Body = convIn[1].RespBody
        /\ ~(convOut[1].Response.hasJsonBody /\ convOut[1].Response.Body # <<>>)
-----------------------------------------------------------------------------
(* Claims on handleSnapshot *)

\* C21: the answer to a snapshot always carries a list of mappings, and
\* when nothing is exported the list is empty, not null and not absent:
\* with an empty recorder, with a filter that takes no exchange, in either
\* export mode.
C21_MappingsNeverNull ==
    snapResp.sent =>
        /\ "mappings" \in DOMAIN snapResp.body
        /\ snapResp.body["mappings"].k = "arr"
        /\ convIn = <<>> => snapResp.body["mappings"] = JArr(<<>>)

\* a snapshot with scenarios whose filter takes none of the exchanges
C21_Witness ==
    /\ snapResp.sent
    /\ snapReq.RepeatsAsScenarios
    /\ snapBefore # <<>>
    /\ convIn = <<>>
    /\ snapResp.body["mappings"] = JArr(<<>>)

\* the X of a filter of the shape ((?!X).)*, empty for any other filter
C27_Inner(p) ==
    IF /\ Len(p) >= 9
       /\ Slice(p, 1, 4) = <<"(", "(", "?", "!">>
       /\ Slice(p, Len(p) - 3, Len(p)) = <<")", ".", ")", "*">>
    THEN Slice(p, 5, Len(p) - 4)
    ELSE <<>>

\* whether the URI contains a match of the pattern X
C27_ContainsMatch(X, uri) == RegexCompiles(X) /\ MatchString(X, uri)

\* the exchanges of exs, in order, whose URI contains a match of X (want)
\* or contains none (~want)
C27_Select(exs, X, want) ==
    LET Test(ex) == C27_ContainsMatch(X, ex.URL) = want
    IN SelectSeq(exs, Test)

\* C27: a snapshot whose filter has the shape ((?!X).)* drains exactly the
\* recorded exchanges whose raw URI contains no match of X and leaves in the
\* recorder exactly those whose URI contains a match of X.
C27_LookaheadDrainsTheOthers ==
    (snapResp.sent /\ C27_Inner(snapReq.URLPattern) # <<>>) =>
        /\ convIn = C27_Select(snapBefore, C27_Inner(snapReq.URLPattern), FALSE)
        /\ exchanges = C27_Select(snapBefore, C27_Inner(snapReq.URLPattern), TRUE)

\* the filter ((?!b).)* on a recorder that holds /a and /b: /a is drained,
\* /b is left
C27_Witness ==
    /\ snapResp.sent
    /\ C27_Inner(snapReq.URLPattern) = S1("b")
    /\ Len(snapBefore) = 2
    /\ Len(convIn) = 1
    /\ convIn[1].URL = UriA
    /\ Len(exchanges) = 1
    /\ exchanges[1].URL = UriB

\* C28: a snapshot whose filter neither compiles as a regular expression
\* nor has the shape ((?!X).)* is not rejected; the filter takes every URI:
\* all recorded exchanges are drained and converted and the recorder is
\* left empty.
C28_UnsupportedFilterTakesAll ==
    (/\ snapResp.sent
     /\ ~RegexCompiles(snapReq.URLPattern)
     /\ C27_Inner(snapReq.URLPattern) = <<>>) =>
        /\ snapResp.status = 200
        /\ convIn = snapBefore
        /\ exchanges = <<>>
-----------------------------------------------------------------------------
(* Claims on evaluateMapping *)

\* the path and the query string of the request, put together again
C22_PathAndQuery(rq) ==
    IF IndexByte(rq.uri, "?") = 0 THEN PathOf(rq.uri)
    ELSE PathOf(rq.uri) \o <<"?">> \o QueryStringOf(rq.uri)

\* C22: the URL criterion of a stub consults one mode, in fixed precedence:
\* with a url it is url = path and query of the request, urlPath and
\* urlPattern ignored; else with a urlPath it is urlPath = path, urlPattern
\* ignored; else with a urlPattern it is a search of the pattern in path and
\* query, false when the pattern does not compile; a stub with none of the
\* three never passes.
C22_OneUrlModeInPrecedence ==
    scanned >= 1 =>
        \A i \in DOMAIN mappings :
            LET r == mappings[i].Request
            IN /\ r.URL # <<>> => (evals[i].URLMatch <=> r.URL = C22_PathAndQuery(req))
               /\ (r.URL = <<>> /\ r.URLPath # <<>>) =>
                     (evals[i].URLMatch <=> r.URLPath = PathOf(req.uri))
               /\ (r.URL = <<>> /\ r.URLPath = <<>> /\ r.URLPattern # <<>>) =>
                     (evals[i].URLMatch <=>
                         RegexCompiles(r.URLPattern)
                         /\ MatchString(r.URLPattern, C22_PathAndQuery(req)))
               /\ (r.URL = <<>> /\ r.URLPath = <<>> /\ r.URLPattern = <<>>) =>
                     ~evals[i].URLMatch

\* a stub with url /a?x=1, urlPath /a and urlPattern /a.* on the request
\* GET /a: the path and the pattern would pass, the url does not
C22_Witness ==
    /\ scanned >= 1
    /\ mappings[1].Request.URL = UriAx1
    /\ mappings[1].Request.URLPath = UriA
    /\ mappings[1].Request.URLPattern = <<"/", "a", ".", "*">>
    /\ req.uri = UriA
    /\ ~evals[1].URLMatch

\* the diff records of the list diffs that name the matcher name
C23_RecordsOf(diffs, name) == {k \in DOMAIN diffs : diffs[k].name = name}

\* whether the records of diffs for the matcher name are as the claim has
\* them: one if the matcher fails and none if it passes; the record is
\* not_present if the request carries no value and mismatch otherwise, it
\* carries the expected values, and for a mismatch the observed ones
C23_Recorded(diffs, name, fails, absent, expected, observed) ==
    /\ Cardinality(C23_RecordsOf(diffs, name)) = IF fails THEN 1 ELSE 0
    /\ \A k \in C23_RecordsOf(diffs, name) :
          /\ diffs[k].kind = IF absent THEN "not_present" ELSE "mismatch"
          /\ diffs[k].expected = expected
          /\ ~absent => diffs[k].actual = observed

\* the value a header matcher expects: its equalTo, or else its contains
C23_HeaderExpected(matcher) ==
    IF matcher.EqualTo # <<>> THEN matcher.EqualTo ELSE matcher.Contains

\* the value the request carries for the header name, empty for none
C23_HeaderValue(rq, name) ==
    IF name \in DOMAIN rq.headers THEN rq.headers[name] ELSE <<>>

C23_QueryRecorded(m, result) ==
    /\ \A k \in DOMAIN result.QueryDiffs :
          result.QueryDiffs[k].name \in DOMAIN m.Request.QueryParameters
    /\ \A name \in DOMAIN m.Request.QueryParameters :
          C23_Recorded(result.QueryDiffs, name,
                       ~matchQueryParam(getExpectedValues(m.Request.QueryParameters[name]),
                                        actualValues(QueryArgs(req.uri), name)),
                       actualValues(QueryArgs(req.uri), name) = <<>>,
                       getExpectedValues(m.Request.QueryParameters[name]),
                       actualValues(QueryArgs(req.uri), name))

C23_HeaderRecorded(m, result) ==
    /\ \A k \in DOMAIN result.HeaderDiffs :
          result.HeaderDiffs[k].name \in DOMAIN m.Request.Headers
    /\ \A name \in DOMAIN m.Request.Headers :
          C23_Recorded(result.HeaderDiffs, name,
                       ~matchHeader(m.Request.Headers[name], C23_HeaderValue(req, name)),
                       C23_HeaderValue(req, name) = <<>>,
                       C23_HeaderExpected(m.Request.Headers[name]),
                       C23_HeaderValue(req, name))

\* C23: for every evaluated stub the MatchResult holds one diff record for
\* each failing query matcher and one for each failing header matcher, and
\* none for a passing matcher; a record is not_present exactly if the
\* request carries no value for the parameter or header and mismatch
\* otherwise; it carries the values the matcher expected and, for a
\* mismatch, the values observed.
C23_OneDiffPerFailingMatcher ==
    scanned >= 1 =>
        \A i \in DOMAIN mappings :
            C23_QueryRecorded(mappings[i], evals[i]) /\ C23_HeaderRecorded(mappings[i], evals[i])
-----------------------------------------------------------------------------
(* Claims on the Stub Repository *)

\* the results matchRequest may return for the request rq on the repository
\* maps, over the orders of its loops over the matchers
C24_MatchRequest(maps, rq) ==
    {matchOf(maps, rq, qOrd, hOrd) : qOrd \in Perms(QNames), hOrd \in Perms(HNames)}

\* C24: under any interleaving of a scan with additions, imports and clears
\* the scan sees one state of the repository: no mutation takes effect while
\* a scan holds the read lock, no scan runs while a mutation holds the write
\* lock, and the result of the scan is that of matchRequest on the
\* repository as it was at one instant between the start and the end of
\* the scan.
C24_ScanSeesOneRepository ==
    /\ smu.writer # "none" => smu.readers = {}
    /\ \A h \in Handlers :
          /\ spc[h] # "panic"
          /\ spc[h] = "scan" => (h \in smu.readers /\ mappings = sloc[h].seen)
          /\ spc[h] = "reply" =>
                sloc[h].st.bestMatch \in C24_MatchRequest(sloc[h].seen, sloc[h].rq)

\* a scan has returned a stub while the other handler holds the write lock
\* for a clear
C24_Witness ==
    /\ spc["h1"] = "reply"
    /\ sloc["h1"].st.bestMatch.Matched
    /\ Len(sloc["h1"].seen) = 2
    /\ spc["h2"] = "write"
    /\ sloc["h2"].op = "clear"

\* a stub with nothing but the name
C25_Named(name) == [ZeroMapping EXCEPT !.Name = name]

\* the stubs the body of an add or import holds; none when it does not parse
C25_StubsOf(body) ==
    CASE body = AddUrlA -> <<[ZeroMapping EXCEPT !.Request.URL = UriA]>>
      [] body = AddNameB -> <<C25_Named(S1("b"))>>
      [] body = AddEmpty -> <<ZeroMapping>>
      [] body = ImportAB -> <<C25_Named(S1("a")), C25_Named(S1("b"))>>
      [] OTHER -> <<>>

\* the repository after the admin requests log[1..n]
RECURSIVE C25_After(_, _)
C25_After(log, n) ==
    IF n = 0 THEN <<>>
    ELSE IF log[n].op = "clear" THEN <<>>
    ELSE C25_After(log, n - 1) \o C25_StubsOf(log[n].body)

\* C25: after any sequence of adds, imports and clears the repository is
\* the concatenation, in the order of the requests and keeping the order
\* inside an import, of the stubs added or imported since the last clear:
\* an import appends, a clear leaves the repository empty, an add or import
\* whose body does not parse leaves it unchanged.
C25_RepositoryIsConcatenation == mappings = C25_After(adminLog, Len(adminLog))

\* an add, then an import of two stubs behind it, then an import whose
\* second stub does not parse
C25_Witness ==
    /\ Len(adminLog) = 3
    /\ adminLog[1].body = AddUrlA
    /\ adminLog[2].body = ImportAB
    /\ adminLog[3].body = ImportBadSecond
    /\ adminLog[3].status = 400
    /\ Len(mappings) = 3
-----------------------------------------------------------------------------
(* Claims on proxyAndRecord *)

\* the number of places that hold the exchange of the proxied request id:
\* the recorder, and the exchanges a clear has removed
C26_Recorded(id) ==
    Cardinality({i \in DOMAIN exchanges : exchanges[i].id = id})
    + (IF id \in cleared THEN 1 ELSE 0)

\* every answered request whose forward failed got a 502 and has no
\* exchange, every other got one exchange
C26_AnsweredAsRecorded ==
    \A k \in DOMAIN replies :
        /\ replies[k].err => (replies[k].status = 502 /\ replies[k].id \notin appended)
        /\ C26_Recorded(replies[k].id) = IF replies[k].err THEN 0 ELSE 1
        /\ \A l \in DOMAIN replies : replies[l].id = replies[k].id => l = k

\* the step that answers a failed forward leaves the recorder as it is
C26_FailureLeavesRecorder ==
    (Len(replies') = Len(replies) + 1 /\ replies'[Len(replies')].err) =>
        exchanges' = exchanges

\* C26: a proxied request appends one exchange to the recorder exactly if
\* the forward to the upstream succeeded; when the forward fails the client
\* receives a 502 and the recorder is left unchanged.
C26_RecordedIffForwarded == []C26_AnsweredAsRecorded /\ [][C26_FailureLeavesRecorder]_vars

\* one forward has failed and is answered with 502, one has brought the 502
\* of the upstream and is recorded
C26_Witness ==
    /\ Len(replies) = 2
    /\ replies[1].err
    /\ replies[1].status = 502
    /\ ~replies[2].err
    /\ replies[2].status = 502
    /\ Len(exchanges) = 1
    /\ exchanges[1].id = replies[2].id
-----------------------------------------------------------------------------
(* Claims on record and replay *)

\* C29: for every recorded exchange and every setting of preserveKeyOrder
\* and sortArrayMembers, the stub exchangeToMapping makes of it fully
\* matches (method, URL, query, body and headers all pass) a request with
\* the method, the raw URI and the body of the recorded exchange.
C29_RecordedRequestMatches ==
    scanned = 1 =>
        /\ evals[1].MethodMatch
        /\ evals[1].URLMatch
        /\ evals[1].QueryMatch
        /\ evals[1].BodyMatch
        /\ evals[1].HeaderMatch
        /\ evals[1].Matched
        /\ res1.Matched
-----------------------------------------------------------------------------
(* Claims on the scenario chains *)

\* the scenario names of the output
C30_Names == {convOut[i].ScenarioName : i \in DOMAIN convOut} \ {<<>>}

\* the method+raw-URI groups of more than one exchange
C30_Chains ==
    {groupKey(convIn[i]) : i \in {i \in DOMAIN convIn :
        \E j \in DOMAIN convIn : j # i /\ groupKey(convIn[j]) = groupKey(convIn[i])}}

\* the stubs of the scenario s
C30_Of(s) == {i \in DOMAIN convOut : convOut[i].ScenarioName = s}

\* C30: in the output of exchangesToScenarioMappings the stubs of one
\* scenario name come from one method+raw-URI group: every scenario name
\* has exactly one stub that requires the state Started and exactly one
\* stub without a newScenarioState, and there are as many scenario names
\* as groups of more than one exchange (two groups never share a name).
C30_OneGroupPerScenario ==
    converted =>
        /\ \A s \in C30_Names :
              /\ Cardinality({i \in C30_Of(s) : convOut[i].RequiredScenarioState = <<"S", "t", "a", "r", "t", "e", "d">>}) = 1
              /\ Cardinality({i \in C30_Of(s) : convOut[i].NewScenarioState = <<>>}) = 1
        /\ Cardinality(C30_Names) = Cardinality(C30_Chains)

====
